---- MODULE Spec2Model ----
(***************************************************************************)
(* Experience-learning pipeline of the mentalist backend.                  *)
(*                                                                         *)
(* The persistent store (Cloudflare D1, backend/src/db/schema.sql) is the  *)
(* only shared state.  Every `await db.prepare(..).run()/.first()/.all()`  *)
(* of the services is one atomic statement on the store and one step of    *)
(* the model; the code between two statements of one call runs when the    *)
(* earlier statement has resolved, so calls interleave statement by        *)
(* statement.                                                              *)
(*                                                                         *)
(*   Spec     EnhancedChat: getOrCreateSession, saveMessage, endSession    *)
(*            called concurrently by any callers.                          *)
(*   SpecEnd  POST /api/session/end requests (ExperienceCapture) running   *)
(*            concurrently over sessions that already hold messages.       *)
(*   SpecRating   updateTrickMetrics, call after call, on a fresh pair.    *)
(*   SpecCapture  POST /api/session/end requests one after another, over   *)
(*            every reaction, lesson and length of session.                *)
(*   SpecTurn     a visitor's turns (POST /api/chat/enhanced) next to the  *)
(*            end of the session.                                          *)
(*   SpecAnalysis POST /api/session/end with everything the provider may   *)
(*            answer to analyzeConversation.                               *)
(*   SpecFallback simpleAnalysis applied to every short transcript.        *)
(*   SpecStream   the read loops over a provider's event stream, cut into  *)
(*            reads at any byte.                                           *)
(*   SpecPersona  POST /api/session/end for personas the store lacks.      *)
(*   SpecMemory   synthesizeLearnings and generateMemorySummary over       *)
(*            every small table of experiences.                            *)
(*   SpecLive     turns and end requests under weak fairness of their      *)
(*            handlers.                                                    *)
(*   SpecLearning synthesizeLearnings over every history of up to          *)
(*            MaxLearned experiences of one persona.                       *)
(***************************************************************************)
EXTENDS Integers, Sequences, FiniteSets

VARIABLES
    now,                  \* Math.floor(Date.now() / 1000)
    tieOrder,             \* how the store orders rows that tie in ORDER BY
    mentalists,           \* table mentalists: id -> row
    chat_sessions,        \* table chat_sessions: rows in rowid order, id = rowid
    session_messages,     \* table session_messages: rows in rowid order
    experiences,          \* table experiences: rows in rowid order
    performance_metrics,  \* table performance_metrics: set of rows
    call,                 \* per caller: the EnhancedChat call in flight
    lastOp,               \* the EnhancedChat call that completed last
    req,                  \* per client: the /api/session/end request in flight
    succeeded,            \* ids of the experiences whose request answered success
    requests,             \* number of /api/session/end requests received
    ratingSum,            \* sum of the ratings given to updateTrickMetrics
    transcript,           \* the messages given to simpleAnalysis
    result,               \* what simpleAnalysis returned
    consumer,             \* whose read loop runs: a handler's or the browser's
    upstream,             \* the bytes the consumer's reader has yet to deliver
    arrived,              \* the bytes its reads have returned
    buffer,               \* let buffer
    frames,               \* the lines the loop has processed
    collected,            \* let fullResponse: the text of the lines' deltas
    outcome,              \* how the read loop has ended
    aborted,              \* the provider's stream has broken off
    callbacks,            \* the callbacks streamChat has called, in order
    briefing,             \* what synthesizeLearnings returned
    summary               \* what generateMemorySummary returned

vars == <<now, tieOrder, mentalists, chat_sessions, session_messages,
          experiences, performance_metrics, call, lastOp, req, succeeded,
          requests, ratingSum, transcript, result, consumer, upstream, arrived,
          buffer, frames, collected, outcome, aborted, callbacks, briefing,
          summary>>

chatVars == <<call, lastOp>>
endVars == <<req, succeeded, requests>>
argVars == <<transcript, result>>
streamVars == <<consumer, upstream, arrived, buffer, frames, collected,
                outcome, aborted, callbacks>>
memoryVars == <<briefing, summary>>
fnVars == <<ratingSum, argVars, streamVars, memoryVars>>

(***************************************************************************)
(* Bounds of the model.                                                    *)
(***************************************************************************)
MaxTime == 1
MaxSessions == 2
MaxMessages == 1

Callers == {"c1", "c2"}
Clients == {"e1", "e2"}
Users == {"u1", "u2"}
Personas == {"oz"}

\* The turns callers save: a user turn that holds a word of the fallback
\* analysis' lexicon, a user turn that holds none, an assistant turn.
Turns == {[role |-> "user", content |-> "wow"],
          [role |-> "user", content |-> "hello"],
          [role |-> "assistant", content |-> "hello"]}

\* A session id no row of chat_sessions has (ids of rows are 1, 2, ...).
UnknownSessionIds == {0}

NULL == -1

Max(S) == CHOOSE x \in S : \A y \in S : y <= x
Min(S) == CHOOSE x \in S : \A y \in S : x <= y

(***************************************************************************)
(* EnhancedChat (Session Manager)                                          *)
(*                                                                         *)
(* A call starts with its first statement; call[c] holds what the call     *)
(* still has to do, lastOp what the call that completed last returned.     *)
(***************************************************************************)
IdleCall == [op |-> "none", pc |-> "idle", user |-> "-", mentalist |-> "-",
             sid |-> 0]

NoOp == [op |-> "none", status |-> "none", user |-> "-", mentalist |-> "-",
         sid |-> 0, wasActive |-> FALSE]

\* What a completed call leaves in lastOp: sid is the session id the call was
\* given (saveMessage, endSession) or returned (getOrCreateSession).
Completed(op, status, u, m, sid, wasActive) ==
    [op |-> op, status |-> status, user |-> u, mentalist |-> m, sid |-> sid,
     wasActive |-> wasActive]

\* SELECT id FROM chat_sessions WHERE user_id = ? AND mentalist_id = ?
\*   AND is_active = 1 ORDER BY start_time DESC LIMIT 1      (0: no row)
ActiveRows(u, m) ==
    {i \in DOMAIN chat_sessions :
        /\ chat_sessions[i].user_id = u
        /\ chat_sessions[i].mentalist_id = m
        /\ chat_sessions[i].is_active = 1}

SelectActiveSession(u, m) ==
    LET rows == ActiveRows(u, m)
        latest == {i \in rows :
                     \A j \in rows : chat_sessions[j].start_time
                                       <= chat_sessions[i].start_time}
    IN  IF rows = {} THEN 0
        ELSE IF tieOrder = "rowid_asc" THEN Min(latest) ELSE Max(latest)

\* getOrCreateSession(userId, mentalistId) up to its SELECT: an active row is
\* returned at once, otherwise the INSERT is still to run.
GetOrCreateSession(c, u, m) ==
    /\ call[c].pc = "idle"
    /\ LET found == SelectActiveSession(u, m)
       IN  IF found # 0
           THEN /\ lastOp' = Completed("getOrCreateSession", "ok", u, m, found, FALSE)
                /\ UNCHANGED call
           ELSE /\ call' = [call EXCEPT ![c] =
                              [IdleCall EXCEPT !.op = "getOrCreateSession",
                                               !.pc = "insert", !.user = u,
                                               !.mentalist = m]]
                /\ UNCHANGED lastOp
    /\ UNCHANGED <<fnVars, now, tieOrder, mentalists, chat_sessions, session_messages,
                   experiences, performance_metrics, endVars>>

\* The INSERT of getOrCreateSession (is_active = 1, message_count = 0).  The
\* row references mentalists(id).
InsertSession(c) ==
    /\ call[c].pc = "insert"
    /\ call' = [call EXCEPT ![c] = IdleCall]
    /\ IF call[c].mentalist \in DOMAIN mentalists
       THEN /\ Len(chat_sessions) < MaxSessions
            /\ chat_sessions' = Append(chat_sessions,
                  [user_id |-> call[c].user, mentalist_id |-> call[c].mentalist,
                   start_time |-> now, end_time |-> NULL, is_active |-> 1,
                   message_count |-> 0])
            /\ lastOp' = Completed("getOrCreateSession", "ok", call[c].user,
                                   call[c].mentalist, Len(chat_sessions) + 1, FALSE)
       ELSE /\ lastOp' = Completed("getOrCreateSession", "constraint", call[c].user,
                                   call[c].mentalist, 0, FALSE)
            /\ UNCHANGED chat_sessions
    /\ UNCHANGED <<fnVars, now, tieOrder, mentalists, session_messages, experiences,
                   performance_metrics, endVars>>

\* saveMessage on a store that does not enforce the reference to
\* chat_sessions(id).
SaveMessageUnchecked(c, sid, turn) ==
    /\ call[c].pc = "idle"
    /\ Len(session_messages) < MaxMessages
    /\ session_messages' = Append(session_messages,
          [session_id |-> sid, role |-> turn.role,
           content |-> turn.content, timestamp |-> now])
    /\ call' = [call EXCEPT ![c] =
                  [IdleCall EXCEPT !.op = "saveMessage",
                                   !.pc = "incrementCount", !.sid = sid]]
    /\ UNCHANGED <<fnVars, now, tieOrder, mentalists, chat_sessions, experiences,
                   performance_metrics, lastOp, endVars>>

\* saveMessage(sessionId, role, content) up to its INSERT.  session_id
\* REFERENCES chat_sessions(id): the store rejects a row whose session does
\* not exist, and the call throws.
SaveMessage(c, sid, turn) ==
    /\ call[c].pc = "idle"
    /\ IF sid \in DOMAIN chat_sessions
       THEN /\ Len(session_messages) < MaxMessages
            /\ session_messages' = Append(session_messages,
                  [session_id |-> sid, role |-> turn.role,
                   content |-> turn.content, timestamp |-> now])
            /\ call' = [call EXCEPT ![c] =
                          [IdleCall EXCEPT !.op = "saveMessage",
                                           !.pc = "incrementCount", !.sid = sid]]
            /\ UNCHANGED lastOp
       ELSE /\ lastOp' = Completed("saveMessage", "constraint", "-", "-", sid, FALSE)
            /\ UNCHANGED <<session_messages, call>>
    /\ UNCHANGED <<fnVars, now, tieOrder, mentalists, chat_sessions, experiences,
                   performance_metrics, endVars>>

\* UPDATE chat_sessions SET message_count = message_count + 1 WHERE id = ?
IncrementCount(c) ==
    /\ call[c].pc = "incrementCount"
    /\ chat_sessions' =
         [i \in DOMAIN chat_sessions |->
            IF i = call[c].sid
            THEN [chat_sessions[i] EXCEPT !.message_count = @ + 1]
            ELSE chat_sessions[i]]
    /\ call' = [call EXCEPT ![c] = IdleCall]
    /\ lastOp' = Completed("saveMessage", "ok", "-", "-", call[c].sid, FALSE)
    /\ UNCHANGED <<fnVars, now, tieOrder, mentalists, session_messages, experiences,
                   performance_metrics, endVars>>

\* An UPDATE that changes no row.
EndedRowsUnchanged(sid) == chat_sessions

\* UPDATE chat_sessions SET is_active = 0, end_time = ? WHERE id = ?
EndedRows(sid) ==
    [i \in DOMAIN chat_sessions |->
       IF i = sid
       THEN [chat_sessions[i] EXCEPT !.is_active = 0, !.end_time = now]
       ELSE chat_sessions[i]]

\* endSession(sessionId): its one statement.
EndSession(c, sid) ==
    /\ call[c].pc = "idle"
    /\ chat_sessions' = EndedRows(sid)
    /\ lastOp' = Completed("endSession", "ok", "-", "-", sid,
                    /\ sid \in DOMAIN chat_sessions
                    /\ chat_sessions[sid].is_active = 1)
    /\ UNCHANGED <<fnVars, now, tieOrder, mentalists, session_messages, experiences,
                   performance_metrics, call, endVars>>

\* The statement a call is waiting to run fails (the store is unavailable):
\* the call throws, and what it wrote before stays written.
StoreUnavailable(c) ==
    /\ call[c].pc # "idle"
    /\ call' = [call EXCEPT ![c] = IdleCall]
    /\ lastOp' = Completed(call[c].op, "unavailable", call[c].user,
                           call[c].mentalist, call[c].sid, FALSE)
    /\ UNCHANGED <<fnVars, now, tieOrder, mentalists, chat_sessions, session_messages,
                   experiences, performance_metrics, endVars>>

(***************************************************************************)
(* Session Manager: the claims, checked under Spec.                        *)
(***************************************************************************)
\* SELECT ... FROM session_messages WHERE session_id = ?, in rowid order.
MessagesIn(rows, sid) == SelectSeq(rows, LAMBDA r : r.session_id = sid)

SavingTo(sid) ==
    \E c \in Callers : call[c].pc = "incrementCount" /\ call[c].sid = sid

\* C1: in every reachable state there is at most one chat session with
\* is_active = 1 for any (user, persona) pair, also when two
\* getOrCreateSession calls for the pair run their SELECT before either INSERT.
C1_AtMostOneActiveSession ==
    \A u \in Users, m \in Personas : Cardinality(ActiveRows(u, m)) <= 1

\* C5: a getOrCreateSession call for a pair that starts right after a
\* getOrCreateSession call for the same pair has returned (no other call has
\* completed in between, so no endSession has) returns the same session id at
\* once and inserts no row.
C5_ConsecutiveCallsSameSession ==
    [][\A c \in Callers, u \in Users, m \in Personas :
         ( /\ lastOp.op = "getOrCreateSession" /\ lastOp.status = "ok"
           /\ lastOp.user = u /\ lastOp.mentalist = m
           /\ GetOrCreateSession(c, u, m) )
         => /\ call'[c].pc = "idle"
            /\ lastOp'.sid = lastOp.sid
            /\ chat_sessions' = chat_sessions]_vars

\* C6: when endSession(s) has just ended the active session s of a pair, the
\* getOrCreateSession call for that pair that returns next returns an id other
\* than s, of a session that is active and has message_count = 0.
ReturnsSession(c, u, m) ==
    /\ \/ GetOrCreateSession(c, u, m)
       \/ InsertSession(c) /\ call[c].user = u /\ call[c].mentalist = m
    /\ call'[c].pc = "idle"
    /\ lastOp'.op = "getOrCreateSession"
    /\ lastOp'.status = "ok"

C6_NewSessionAfterEnd ==
    [][\A c \in Callers, u \in Users, m \in Personas :
         ( /\ lastOp.op = "endSession" /\ lastOp.wasActive
           /\ chat_sessions[lastOp.sid].user_id = u
           /\ chat_sessions[lastOp.sid].mentalist_id = m
           /\ ReturnsSession(c, u, m) )
         => /\ lastOp'.sid # lastOp.sid
            /\ chat_sessions'[lastOp'.sid].is_active = 1
            /\ chat_sessions'[lastOp'.sid].message_count = 0]_vars

\* C7: endSession on a session that is already ended leaves every attribute of
\* the session (is_active, end_time, message_count) as it was.
C7_EndSessionIdempotent ==
    [][\A c \in Callers, sid \in DOMAIN chat_sessions :
         (chat_sessions[sid].is_active = 0 /\ EndSession(c, sid))
         => chat_sessions'[sid] = chat_sessions[sid]]_vars

\* C8: once a session has is_active = 0 it never becomes active again, its
\* message_count never changes and no message is added to it.
C8_EndedSessionImmutable ==
    [][\A sid \in DOMAIN chat_sessions :
         chat_sessions[sid].is_active = 0
         => /\ chat_sessions'[sid].is_active = 0
            /\ chat_sessions'[sid].message_count = chat_sessions[sid].message_count
            /\ MessagesIn(session_messages', sid)
                 = MessagesIn(session_messages, sid)]_vars

\* C9: saveMessage with a session id that no row of chat_sessions has fails
\* (the store rejects the row) and stores no message: every stored message
\* belongs to a session of the store.
C9_UnknownSessionRejected ==
    /\ (lastOp.op = "saveMessage" /\ lastOp.sid \notin DOMAIN chat_sessions)
          => lastOp.status = "constraint"
    /\ \A i \in DOMAIN session_messages :
          session_messages[i].session_id \in DOMAIN chat_sessions

C9_Witness ==
    /\ lastOp.op = "saveMessage"
    /\ lastOp.sid \notin DOMAIN chat_sessions
    /\ lastOp.status = "constraint"
    /\ chat_sessions # <<>>
    /\ session_messages # <<>>

\* C10: for every session on which no saveMessage is in flight, message_count
\* equals the number of messages stored for the session, also after a store
\* failure between the INSERT and the UPDATE of a saveMessage.
C10_MessageCountMatches ==
    \A sid \in DOMAIN chat_sessions :
        ~SavingTo(sid)
        => chat_sessions[sid].message_count
             = Len(MessagesIn(session_messages, sid))


\* A client with no /api/session/end request in flight.
\* No function of the services has been applied on its own.
NoAnalysis == [trickPerformed |-> "", userSentiment |-> 0,
               mentalistSuccess |-> FALSE, lessonLearned |-> ""]

\* No read loop runs.
NoStream ==
    /\ consumer = "none"
    /\ upstream = ""
    /\ arrived = ""
    /\ buffer = ""
    /\ frames = <<>>
    /\ collected = ""
    /\ outcome = "idle"
    /\ aborted = FALSE
    /\ callbacks = <<>>

\* Neither function of userMemory.ts has been called.
NoBriefing == [mentalistId |-> "-"]
NoSummary == [userId |-> "-"]

NoMemoryCall ==
    /\ briefing = NoBriefing
    /\ summary = NoSummary

NoFunctionCall ==
    /\ transcript = <<>>
    /\ result = NoAnalysis
    /\ NoStream
    /\ NoMemoryCall

NoRow == [mentalist_id |-> "-"]
NoExperience == [mentalist_id |-> "-"]

IdleReq == [pc |-> "idle", sessionId |-> 0, mentalistId |-> "-", userId |-> "-",
            messages |-> <<>>, durationSeconds |-> 0,
            experience |-> NoExperience, expId |-> 0,
            tricks |-> <<>>, existing |-> NoRow]

\* Time passes.
Tick ==
    /\ now < MaxTime
    /\ now' = now + 1
    /\ UNCHANGED <<fnVars, tieOrder, mentalists, chat_sessions, session_messages,
                   experiences, performance_metrics, chatVars, endVars>>

\* A provisioned persona (POST /api/mentalist/init).
NewMentalist == [experience_level |-> 0, total_performances |-> 0,
                 successful_tricks |-> <<>>]

Init ==
    /\ now = 0
    /\ tieOrder \in {"rowid_asc", "rowid_desc"}
    /\ mentalists = [m \in Personas |-> NewMentalist]
    /\ chat_sessions = <<>>
    /\ session_messages = <<>>
    /\ experiences = <<>>
    /\ performance_metrics = {}
    /\ call = [c \in Callers |-> IdleCall]
    /\ lastOp = NoOp
    /\ req = [e \in Clients |-> IdleReq]
    /\ succeeded = {}
    /\ requests = 0
    /\ ratingSum = 0
    /\ NoFunctionCall

Next ==
    \/ Tick
    \/ \E c \in Callers, u \in Users, m \in Personas : GetOrCreateSession(c, u, m)
    \/ \E c \in Callers : InsertSession(c)
    \/ \E c \in Callers, sid \in DOMAIN chat_sessions \cup UnknownSessionIds,
          turn \in Turns : SaveMessage(c, sid, turn)
    \/ \E c \in Callers : IncrementCount(c)
    \/ \E c \in Callers, sid \in DOMAIN chat_sessions \cup UnknownSessionIds :
          EndSession(c, sid)
    \/ \E c \in Callers : StoreUnavailable(c)

Spec == Init /\ [][Next]_vars

(***************************************************************************)
(* ExperienceCapture and POST /api/session/end                             *)
(*                                                                         *)
(* Sentiments are in tenths: 7 stands for 0.7.  success_rate is the        *)
(* quotient of two integers, kept as <<numerator, denominator>> in lowest  *)
(* terms.  average_user_rating is computed in IEEE 754 binary64, as the    *)
(* code computes it.                                                       *)
(***************************************************************************)
MaxRequests == 2


\* What the analysis provider answers (analyzeConversation's try branch).
AIAnalyses ==
    {[trickPerformed |-> "card_force", userSentiment |-> 8,
      mentalistSuccess |-> TRUE, lessonLearned |-> "smile more"],
     [trickPerformed |-> "card_force", userSentiment |-> -5,
      mentalistSuccess |-> FALSE, lessonLearned |-> ""]}

RECURSIVE GCD(_, _)
GCD(a, b) == IF b = 0 THEN a ELSE GCD(b, a % b)

Quotient(n, d) == LET g == GCD(n, d) IN <<n \div g, d \div g>>

\* The alternatives of /amazing|wow|incredible|unbelievable|awesome|cool/i.
PositiveWords ==
    {"amazing", "wow", "incredible", "unbelievable", "awesome", "cool"}

\* The flag i: a letter matches in either case.
ToLowerCase(ch) ==
    LET upper == "ABCDEFGHIJKLMNOPQRSTUVWXYZ"
        lower == "abcdefghijklmnopqrstuvwxyz"
    IN  IF \E k \in 1..Len(upper) : SubSeq(upper, k, k) = ch
        THEN LET k == CHOOSE k \in 1..Len(upper) : SubSeq(upper, k, k) = ch
             IN  SubSeq(lower, k, k)
        ELSE ch

\* The test without the flag i.
HasPositiveWordsCaseSensitive(content) ==
    \E word \in PositiveWords, i \in 1..Len(content) :
        /\ i + Len(word) - 1 <= Len(content)
        /\ SubSeq(content, i, i + Len(word) - 1) = word

\* /amazing|wow|incredible|unbelievable|awesome|cool/i.test(content): some
\* alternative stands somewhere in content.
HasPositiveWords(content) ==
    \E word \in PositiveWords, i \in 1..Len(content) :
        /\ i + Len(word) - 1 <= Len(content)
        /\ \A k \in 1..Len(word) :
              ToLowerCase(SubSeq(content, i + k - 1, i + k - 1))
                  = SubSeq(word, k, k)

simpleAnalysis(messages) ==
    LET hasPositiveWords ==
            \E i \in DOMAIN messages :
                messages[i].role = "user" /\ HasPositiveWords(messages[i].content)
    IN  [trickPerformed |-> "general_interaction",
         userSentiment |-> IF hasPositiveWords THEN 7 ELSE 5,
         mentalistSuccess |-> hasPositiveWords,
         lessonLearned |-> "Standard interaction"]

\* mapSentimentToReaction with the bounds of the buckets excluded.
mapSentimentToReactionStrict(sentiment) ==
    IF sentiment > 7 THEN "amazed"
    ELSE IF sentiment > 3 THEN "engaged"
    ELSE IF sentiment > -3 THEN "neutral"
    ELSE IF sentiment > -7 THEN "skeptical"
    ELSE "confused"

mapSentimentToReaction(sentiment) ==
    IF sentiment >= 7 THEN "amazed"
    ELSE IF sentiment >= 3 THEN "engaged"
    ELSE IF sentiment >= -3 THEN "neutral"
    ELSE IF sentiment >= -7 THEN "skeptical"
    ELSE "confused"

\* mapReactionToRating answering its default for every reaction.
mapReactionToRatingDefault(reaction) == 3

mapReactionToRating(reaction) ==
    CASE reaction = "amazed" -> 5
      [] reaction = "engaged" -> 4
      [] reaction = "neutral" -> 3
      [] reaction = "skeptical" -> 2
      [] reaction = "confused" -> 1
      [] OTHER -> 3

\* calculateExpGain without the cap on the bonus of long sessions.
calculateExpGainUncapped(experience) ==
    10
    + (IF experience.user_reaction = "amazed" THEN 20
       ELSE IF experience.user_reaction = "engaged" THEN 10
       ELSE IF experience.user_reaction = "neutral" THEN 5
       ELSE 0)
    + (IF experience.lesson_learned # "" THEN 5 ELSE 0)
    + (IF experience.message_count > 10
       THEN experience.message_count - 10 ELSE 0)

calculateExpGain(experience) ==
    10
    + (IF experience.user_reaction = "amazed" THEN 20
       ELSE IF experience.user_reaction = "engaged" THEN 10
       ELSE IF experience.user_reaction = "neutral" THEN 5
       ELSE 0)
    + (IF experience.lesson_learned # "" THEN 5 ELSE 0)
    + (IF experience.message_count > 10
       THEN Min({experience.message_count - 10, 10}) ELSE 0)

\* The test with 'engaged' left out.
IsSuccessAmazedOnly(experience) == experience.user_reaction = "amazed"

\* const isSuccess = experience.userReaction === 'amazed' ||
\*                   experience.userReaction === 'engaged'
IsSuccess(experience) ==
    experience.user_reaction = "amazed" \/ experience.user_reaction = "engaged"

\* The row captureExperience builds before its INSERT.
BuildExperience(mentalistId, userId, sessionId, analysis, messages, durationSeconds) ==
    [mentalist_id |-> mentalistId,
     user_id |-> userId,
     session_id |-> sessionId,
     timestamp |-> now,
     trick_performed |-> IF analysis.trickPerformed # ""
                         THEN analysis.trickPerformed ELSE "general_interaction",
     user_reaction |-> mapSentimentToReaction(analysis.userSentiment),
     user_sentiment |-> analysis.userSentiment,
     lesson_learned |-> analysis.lessonLearned,
     message_count |-> Len(messages),
     duration_seconds |-> durationSeconds]

\* getSessionMessages: SELECT role, content, timestamp FROM session_messages
\*   WHERE session_id = ? ORDER BY timestamp ASC
getSessionMessages(sid) ==
    LET ids == {i \in DOMAIN session_messages :
                  session_messages[i].session_id = sid}
        Before(i, j) ==
            \/ session_messages[i].timestamp < session_messages[j].timestamp
            \/ /\ session_messages[i].timestamp = session_messages[j].timestamp
               /\ IF tieOrder = "rowid_asc" THEN i < j ELSE i > j
        At(k) == CHOOSE i \in ids : Cardinality({j \in ids : Before(j, i)}) = k - 1
    IN  [k \in 1..Cardinality(ids) |->
           [role |-> session_messages[At(k)].role,
            content |-> session_messages[At(k)].content,
            timestamp |-> session_messages[At(k)].timestamp]]

\* SELECT * FROM performance_metrics WHERE mentalist_id = ? AND trick_name = ?
MetricRows(m, trick) ==
    {r \in performance_metrics : r.mentalist_id = m /\ r.trick_name = trick}

\* The handler without its test of messages.length.
EndRequestUnchecked(e, sid, m, u) ==
    /\ req[e].pc = "idle"
    /\ requests < MaxRequests
    /\ requests' = requests + 1
    /\ req' = [req EXCEPT ![e] =
                 [IdleReq EXCEPT !.pc = "selectStartTime",
                                 !.sessionId = sid, !.mentalistId = m,
                                 !.userId = u,
                                 !.messages = getSessionMessages(sid)]]
    /\ UNCHANGED <<fnVars, now, tieOrder, mentalists, chat_sessions, session_messages,
                   experiences, performance_metrics, chatVars, succeeded>>

\* POST /api/session/end {sessionId, mentalistId, userId}, up to
\* getSessionMessages: a session without messages is answered 400.
EndRequest(e, sid, m, u) ==
    /\ req[e].pc = "idle"
    /\ requests < MaxRequests
    /\ requests' = requests + 1
    /\ LET messages == getSessionMessages(sid)
       IN  IF Len(messages) = 0
           THEN UNCHANGED req
           ELSE req' = [req EXCEPT ![e] =
                          [IdleReq EXCEPT !.pc = "selectStartTime",
                                          !.sessionId = sid, !.mentalistId = m,
                                          !.userId = u, !.messages = messages]]
    /\ UNCHANGED <<fnVars, now, tieOrder, mentalists, chat_sessions, session_messages,
                   experiences, performance_metrics, chatVars, succeeded>>

\* SELECT start_time FROM chat_sessions WHERE id = ?
SelectStartTime(e) ==
    /\ req[e].pc = "selectStartTime"
    /\ req' = [req EXCEPT ![e].pc = "analyze",
                          ![e].durationSeconds =
                              IF req[e].sessionId \in DOMAIN chat_sessions
                              THEN now - chat_sessions[req[e].sessionId].start_time
                              ELSE 0]
    /\ UNCHANGED <<fnVars, now, tieOrder, mentalists, chat_sessions, session_messages,
                   experiences, performance_metrics, chatVars, succeeded, requests>>

\* analyzeConversation: the provider answers, or the call throws and
\* simpleAnalysis answers; captureExperience then builds the experience.
AnalyzeConversation(e, answered, answer) ==
    /\ req[e].pc = "analyze"
    /\ LET analysis == IF answered THEN answer ELSE simpleAnalysis(req[e].messages)
       IN  req' = [req EXCEPT ![e].pc = "insertExperience",
                              ![e].experience =
                                  BuildExperience(req[e].mentalistId, req[e].userId,
                                                  req[e].sessionId, analysis,
                                                  req[e].messages,
                                                  req[e].durationSeconds),
                              ![e].messages = <<>>,
                              ![e].durationSeconds = 0]
    /\ UNCHANGED <<fnVars, now, tieOrder, mentalists, chat_sessions, session_messages,
                   experiences, performance_metrics, chatVars, succeeded, requests>>

\* The request throws: it is answered 500, what it wrote stays written.
Thrown(e) == [req EXCEPT ![e] = IdleReq]

\* The INSERT on a table without its FOREIGN KEY.
InsertExperienceNoForeignKey(e) ==
    /\ req[e].pc = "insertExperience"
    /\ experiences' = Append(experiences, req[e].experience)
    /\ req' = [req EXCEPT ![e].pc = "updateStats",
                          ![e].expId = Len(experiences) + 1]
    /\ UNCHANGED <<fnVars, now, tieOrder, mentalists, chat_sessions, session_messages,
                   performance_metrics, chatVars, succeeded, requests>>

\* INSERT INTO experiences (...).  mentalist_id REFERENCES mentalists(id).
InsertExperience(e) ==
    /\ req[e].pc = "insertExperience"
    /\ IF req[e].mentalistId \in DOMAIN mentalists
       THEN /\ experiences' = Append(experiences, req[e].experience)
            /\ req' = [req EXCEPT ![e].pc = "updateStats",
                                  ![e].expId = Len(experiences) + 1]
       ELSE /\ req' = Thrown(e)
            /\ UNCHANGED experiences
    /\ UNCHANGED <<fnVars, now, tieOrder, mentalists, chat_sessions, session_messages,
                   performance_metrics, chatVars, succeeded, requests>>

\* updateMentalistStats writing the gain over experience_level.
UpdateStatsOverwrite(e) ==
    /\ req[e].pc = "updateStats"
    /\ mentalists' =
         [m \in DOMAIN mentalists |->
            IF m = req[e].mentalistId
            THEN [mentalists[m] EXCEPT
                    !.total_performances = @ + 1,
                    !.experience_level = calculateExpGain(req[e].experience)]
            ELSE mentalists[m]]
    /\ req' = [req EXCEPT ![e].pc = IF IsSuccess(req[e].experience)
                                    THEN "selectTricks" ELSE "selectMetric"]
    /\ UNCHANGED <<fnVars, now, tieOrder, chat_sessions, session_messages, experiences,
                   performance_metrics, chatVars, succeeded, requests>>

\* updateMentalistStats: UPDATE mentalists SET total_performances =
\*   total_performances + 1, experience_level = experience_level + ?
UpdateStats(e) ==
    /\ req[e].pc = "updateStats"
    /\ mentalists' =
         [m \in DOMAIN mentalists |->
            IF m = req[e].mentalistId
            THEN [mentalists[m] EXCEPT
                    !.total_performances = @ + 1,
                    !.experience_level = @ + calculateExpGain(req[e].experience)]
            ELSE mentalists[m]]
    /\ req' = [req EXCEPT ![e].pc = IF IsSuccess(req[e].experience)
                                    THEN "selectTricks" ELSE "selectMetric"]
    /\ UNCHANGED <<fnVars, now, tieOrder, chat_sessions, session_messages, experiences,
                   performance_metrics, chatVars, succeeded, requests>>

\* SELECT successful_tricks FROM mentalists WHERE id = ?
SelectTricks(e) ==
    /\ req[e].pc = "selectTricks"
    /\ req' = IF req[e].mentalistId \in DOMAIN mentalists
              THEN [req EXCEPT ![e].pc = "updateTricks",
                               ![e].tricks =
                                   mentalists[req[e].mentalistId].successful_tricks]
              ELSE [req EXCEPT ![e].pc = "selectMetric"]
    /\ UNCHANGED <<fnVars, now, tieOrder, mentalists, chat_sessions, session_messages,
                   experiences, performance_metrics, chatVars, succeeded, requests>>

\* tricks.push(trickPerformed); UPDATE mentalists SET successful_tricks = ?
UpdateTricks(e) ==
    /\ req[e].pc = "updateTricks"
    /\ mentalists' =
         [m \in DOMAIN mentalists |->
            IF m = req[e].mentalistId
            THEN [mentalists[m] EXCEPT
                    !.successful_tricks =
                        Append(req[e].tricks, req[e].experience.trick_performed)]
            ELSE mentalists[m]]
    /\ req' = [req EXCEPT ![e].pc = "selectMetric", ![e].tricks = <<>>]
    /\ UNCHANGED <<fnVars, now, tieOrder, chat_sessions, session_messages, experiences,
                   performance_metrics, chatVars, succeeded, requests>>

\* updateTrickMetrics: SELECT * FROM performance_metrics
\*   WHERE mentalist_id = ? AND trick_name = ?
SelectMetric(e) ==
    /\ req[e].pc = "selectMetric"
    /\ LET rows == MetricRows(req[e].mentalistId, req[e].experience.trick_performed)
       IN  req' = [req EXCEPT ![e].pc = "writeMetric",
                              ![e].existing = IF rows = {} THEN NoRow
                                              ELSE CHOOSE r \in rows : TRUE]
    /\ UNCHANGED <<fnVars, now, tieOrder, mentalists, chat_sessions, session_messages,
                   experiences, performance_metrics, chatVars, succeeded, requests>>

(***************************************************************************)
(* Numbers of the code are IEEE 754 binary64 (53 significant bits, round   *)
(* to nearest, ties to even).  A number x with 1 <= x < 64 is held as the  *)
(* integer x * 2^52 in three limbs of 20 bits, most significant first;     *)
(* every rating is at least 1, so no smaller number occurs.                *)
(***************************************************************************)
Limb == 1048576

\* 2^52 = 4096 * Limb * Limb
FromInt(r) == <<r * 4096, 0, 0>>

\* e with 2^e <= x < 2^(e+1): numbers of this binade are multiples of
\* 2^e / 2^52.
Binade(x) == CHOOSE e \in 0..5 : 2^e * 4096 <= x[1] /\ x[1] < 2^(e+1) * 4096

\* The binary64 nearest to x + rem / n, where 0 <= rem < n.
RoundNearestEven(x, rem, n) ==
    LET unit == 2^Binade(x)
        low == x[3] % unit
        up == \/ 2 * (low * n + rem) > unit * n
              \/ /\ 2 * (low * n + rem) = unit * n
                 /\ (x[3] \div unit) % 2 = 1
        a0 == (x[3] - low) + (IF up THEN unit ELSE 0)
        a1 == x[2] + a0 \div Limb
        a2 == x[1] + a1 \div Limb
    IN  <<a2, a1 % Limb, a0 % Limb>>

\* x * t, x + r and x / n for a binary64 x and small integers t, r, n.
Times(x, t) ==
    LET c0 == x[3] * t
        c1 == x[2] * t + c0 \div Limb
        c2 == x[1] * t + c1 \div Limb
    IN  RoundNearestEven(<<c2, c1 % Limb, c0 % Limb>>, 0, 1)

Plus(x, r) == RoundNearestEven(<<x[1] + r * 4096, x[2], x[3]>>, 0, 1)

Divide(x, n) ==
    LET t1 == (x[1] % n) * Limb + x[2]
        t0 == (t1 % n) * Limb + x[3]
    IN  RoundNearestEven(<<x[1] \div n, t1 \div n, t0 \div n>>, t0 % n, n)

\* updateTrickMetrics leaving success_rate as it read it.
UpdatedMetricStaleRate(existing, experience) ==
    LET rating == mapReactionToRating(experience.user_reaction)
        newTotal == existing.total_attempts + 1
    IN  [existing EXCEPT
           !.total_attempts = newTotal,
           !.success_count = @ + (IF IsSuccess(experience) THEN 1 ELSE 0),
           !.average_user_rating =
               Divide(Plus(Times(existing.average_user_rating,
                                 existing.total_attempts), rating), newTotal)]

\* updateTrickMetrics averaging the stored average with the new rating.
UpdatedMetricHalved(existing, experience) ==
    LET rating == mapReactionToRating(experience.user_reaction)
        newTotal == existing.total_attempts + 1
        newSuccessCount == existing.success_count
                             + (IF IsSuccess(experience) THEN 1 ELSE 0)
    IN  [existing EXCEPT
           !.total_attempts = newTotal,
           !.success_count = newSuccessCount,
           !.success_rate = Quotient(newSuccessCount, newTotal),
           !.average_user_rating =
               Divide(Plus(existing.average_user_rating, rating), 2)]

\* The row updateTrickMetrics writes over the one it read.
UpdatedMetric(existing, experience) ==
    LET isSuccess == IsSuccess(experience)
        rating == mapReactionToRating(experience.user_reaction)
        newTotal == existing.total_attempts + 1
        newSuccessCount == existing.success_count + (IF isSuccess THEN 1 ELSE 0)
    IN  [existing EXCEPT
           !.total_attempts = newTotal,
           !.success_count = newSuccessCount,
           !.success_rate = Quotient(newSuccessCount, newTotal),
           !.average_user_rating =
               Divide(Plus(Times(existing.average_user_rating,
                                 existing.total_attempts), rating), newTotal)]

\* The row updateTrickMetrics inserts when it read none.
CreatedMetric(mentalistId, experience) ==
    LET isSuccess == IsSuccess(experience)
    IN  [mentalist_id |-> mentalistId,
         trick_name |-> experience.trick_performed,
         total_attempts |-> 1,
         success_count |-> IF isSuccess THEN 1 ELSE 0,
         success_rate |-> IF isSuccess THEN <<1, 1>> ELSE <<0, 1>>,
         average_user_rating |-> FromInt(mapReactionToRating(experience.user_reaction))]

\* updateTrickMetrics on a store that accepts a second row for a pair.
WriteMetricNoUnique(e) ==
    /\ req[e].pc = "writeMetric"
    /\ LET key == MetricRows(req[e].mentalistId, req[e].experience.trick_performed)
       IN  IF req[e].existing # NoRow
           THEN /\ performance_metrics' =
                     (performance_metrics \ key)
                     \cup {UpdatedMetric(req[e].existing, req[e].experience) :
                             r \in key}
                /\ req' = [req EXCEPT ![e].pc = "endSession",
                                      ![e].existing = NoRow]
           ELSE /\ performance_metrics' =
                     performance_metrics
                     \cup {CreatedMetric(req[e].mentalistId, req[e].experience)}
                /\ req' = [req EXCEPT ![e].pc = "endSession"]
    /\ UNCHANGED <<fnVars, now, tieOrder, mentalists, chat_sessions, session_messages,
                   experiences, chatVars, succeeded, requests>>

\* updateTrickMetrics: UPDATE performance_metrics SET ... WHERE id = ?, or
\* INSERT INTO performance_metrics (...), which the store rejects when a row
\* of the same id `${mentalistId}_${trickPerformed}` exists.
WriteMetric(e) ==
    /\ req[e].pc = "writeMetric"
    /\ LET key == MetricRows(req[e].mentalistId, req[e].experience.trick_performed)
       IN  IF req[e].existing # NoRow
           THEN /\ performance_metrics' =
                     (performance_metrics \ key)
                     \cup {UpdatedMetric(req[e].existing, req[e].experience) :
                             r \in key}
                /\ req' = [req EXCEPT ![e].pc = "endSession",
                                      ![e].existing = NoRow]
           ELSE IF key = {}
           THEN /\ performance_metrics' =
                     performance_metrics
                     \cup {CreatedMetric(req[e].mentalistId, req[e].experience)}
                /\ req' = [req EXCEPT ![e].pc = "endSession"]
           ELSE /\ req' = Thrown(e)
                /\ UNCHANGED performance_metrics
    /\ UNCHANGED <<fnVars, now, tieOrder, mentalists, chat_sessions, session_messages,
                   experiences, chatVars, succeeded, requests>>

\* endSession, then the request is answered { success: true }.
EndSessionRow(e) ==
    /\ req[e].pc = "endSession"
    /\ chat_sessions' = EndedRows(req[e].sessionId)
    /\ succeeded' = succeeded \cup {req[e].expId}
    /\ req' = [req EXCEPT ![e] = IdleReq]
    /\ UNCHANGED <<fnVars, now, tieOrder, mentalists, session_messages, experiences,
                   performance_metrics, chatVars, requests>>

\* A handler that ends the session when it fails, too.
EndUnavailableEndsSession(e) ==
    /\ req[e].pc \notin {"idle", "analyze"}
    /\ req' = Thrown(e)
    /\ chat_sessions' = EndedRows(req[e].sessionId)
    /\ UNCHANGED <<fnVars, now, tieOrder, mentalists, session_messages,
                   experiences, performance_metrics, chatVars, succeeded, requests>>

\* The statement a request is waiting to run fails (the store is
\* unavailable): the request throws.
EndUnavailable(e) ==
    /\ req[e].pc \notin {"idle", "analyze"}
    /\ req' = Thrown(e)
    /\ UNCHANGED <<fnVars, now, tieOrder, mentalists, chat_sessions, session_messages,
                   experiences, performance_metrics, chatVars, succeeded, requests>>

\* The stores session-end requests arrive at.  Three visitors have each
\* talked to the persona in a session of their own; either no session has
\* been ended yet, or the first visitor's has been, by a request whose
\* analysis was the provider's first answer.
Visitors == <<"u1", "u2", "u3">>

TalkedSessions ==
    [i \in DOMAIN Visitors |->
       [user_id |-> Visitors[i], mentalist_id |-> "oz", start_time |-> 0,
        end_time |-> NULL, is_active |-> 1,
        message_count |-> IF i = 1 THEN 2 ELSE 1]]

TalkedMessages ==
    <<[session_id |-> 1, role |-> "user", content |-> "wow", timestamp |-> 0],
      [session_id |-> 1, role |-> "assistant", content |-> "hello", timestamp |-> 0],
      [session_id |-> 2, role |-> "user", content |-> "hello", timestamp |-> 0],
      [session_id |-> 3, role |-> "user", content |-> "hello", timestamp |-> 0]>>

FirstExperience ==
    [mentalist_id |-> "oz", user_id |-> "u1", session_id |-> 1, timestamp |-> 0,
     trick_performed |-> "card_force", user_reaction |-> "amazed",
     user_sentiment |-> 8, lesson_learned |-> "smile more", message_count |-> 2,
     duration_seconds |-> 0]

InitEnd ==
    /\ now = 0
    /\ tieOrder \in {"rowid_asc", "rowid_desc"}
    /\ session_messages = TalkedMessages
    /\ call = [c \in Callers |-> IdleCall]
    /\ lastOp = NoOp
    /\ req = [e \in Clients |-> IdleReq]
    /\ requests = 0
    /\ ratingSum = 0
    /\ NoFunctionCall
    /\ \/ /\ chat_sessions = TalkedSessions
          /\ mentalists = [m \in Personas |-> NewMentalist]
          /\ experiences = <<>>
          /\ performance_metrics = {}
          /\ succeeded = {}
       \/ /\ chat_sessions = [TalkedSessions EXCEPT ![1].is_active = 0,
                                                    ![1].end_time = 0]
          /\ mentalists = [m \in Personas |->
                             [experience_level |-> calculateExpGain(FirstExperience), total_performances |-> 1,
                              successful_tricks |-> <<"card_force">>]]
          /\ experiences = <<FirstExperience>>
          /\ performance_metrics = {CreatedMetric("oz", FirstExperience)}
          /\ succeeded = {1}

\* The requests of one run arrive within one second of the clock.
NextEnd ==
    \/ \E e \in Clients, sid \in DOMAIN chat_sessions \cup UnknownSessionIds :
          EndRequest(e, sid, "oz",
                     IF sid \in DOMAIN chat_sessions
                     THEN chat_sessions[sid].user_id ELSE "u1")
    \/ \E e \in Clients : SelectStartTime(e)
    \/ \E e \in Clients, answer \in AIAnalyses : AnalyzeConversation(e, TRUE, answer)
    \/ \E e \in Clients :
          AnalyzeConversation(e, FALSE, simpleAnalysis(req[e].messages))
    \/ \E e \in Clients : InsertExperience(e)
    \/ \E e \in Clients : UpdateStats(e)
    \/ \E e \in Clients : SelectTricks(e)
    \/ \E e \in Clients : UpdateTricks(e)
    \/ \E e \in Clients : SelectMetric(e)
    \/ \E e \in Clients : WriteMetric(e)
    \/ \E e \in Clients : EndSessionRow(e)
    \/ \E e \in Clients : EndUnavailable(e)

SpecEnd == InitEnd /\ [][NextEnd]_vars

(***************************************************************************)
(* Session end: the claims, checked under SpecEnd.                         *)
(***************************************************************************)
Tricks == {experiences[i].trick_performed : i \in DOMAIN experiences}

ExperiencesOf(m, trick) ==
    {i \in DOMAIN experiences :
        /\ experiences[i].mentalist_id = m
        /\ experiences[i].trick_performed = trick}

NoRequestInFlight == \A e \in Clients : req[e].pc = "idle"

\* C2: the performance_metrics row of a (persona, trick) pair counts every
\* session end for the pair that was answered success, in total_attempts and
\* (the successful ones) in success_count, also when two of them ran
\* concurrently.  Stated of the ends of different sessions.
C2_MetricCountsEveryAttempt ==
    \A m \in Personas, trick \in Tricks :
        LET done == ExperiencesOf(m, trick) \cap succeeded
            won == {i \in done : IsSuccess(experiences[i])}
        IN  ( /\ done # {}
              /\ \A i, j \in done :
                    experiences[i].session_id = experiences[j].session_id => i = j )
            => \E r \in MetricRows(m, trick) :
                  /\ r.total_attempts >= Cardinality(done)
                  /\ r.success_count >= Cardinality(won)

\* C3: captureExperience is atomic: when no request is in flight, every stored
\* experience is counted in its persona's total_performances and in the
\* total_attempts of its (persona, trick) row, also after a store failure
\* between the INSERT of the experience and the updates of the counters.
C3_CaptureAtomic ==
    NoRequestInFlight
    => \A m \in DOMAIN mentalists :
          /\ mentalists[m].total_performances
               = Cardinality({i \in DOMAIN experiences :
                                experiences[i].mentalist_id = m})
          /\ \A trick \in Tricks :
                \E r \in MetricRows(m, trick) :
                    r.total_attempts = Cardinality(ExperiencesOf(m, trick))

\* C4: in every reachable state at most one experience is stored per session,
\* also when the end of a session is requested twice.
C4_OneExperiencePerSession ==
    \A i, j \in DOMAIN experiences :
        experiences[i].session_id = experiences[j].session_id => i = j

(***************************************************************************)
(* updateTrickMetrics called again and again, each call running to its     *)
(* end before the next, on a (persona, trick) pair that starts without a   *)
(* row.                                                                    *)
(***************************************************************************)
MaxAttempts == 8

\* One sentiment of each reaction.
ReactionSentiments == {8, 5, 0, -5, -9}

Attempt(sentiment) ==
    BuildExperience("oz", "u1", 1,
                    [trickPerformed |-> "card_force", userSentiment |-> sentiment,
                     mentalistSuccess |-> sentiment >= 3, lessonLearned |-> ""],
                    <<>>, 0)

updateTrickMetrics(mentalistId, experience) ==
    LET rows == MetricRows(mentalistId, experience.trick_performed)
    IN  /\ \A r \in rows : r.total_attempts < MaxAttempts
        /\ performance_metrics' =
             IF rows # {}
             THEN (performance_metrics \ rows)
                  \cup {UpdatedMetric(r, experience) : r \in rows}
             ELSE performance_metrics \cup {CreatedMetric(mentalistId, experience)}
        /\ ratingSum' = ratingSum + mapReactionToRating(experience.user_reaction)
        /\ UNCHANGED <<argVars, streamVars, memoryVars, now, tieOrder, mentalists, chat_sessions,
                       session_messages, experiences, chatVars, endVars>>

InitRating ==
    /\ Init
    /\ tieOrder = "rowid_asc"

NextRating ==
    \E sentiment \in ReactionSentiments :
        updateTrickMetrics("oz", Attempt(sentiment))

SpecRating == InitRating /\ [][NextRating]_vars

\* The exact product x * t, and the distance from a number x to the integer
\* r in units of 2^-52 (Limb when x is further from r than that can tell).
ExactTimes(x, t) ==
    LET c0 == x[3] * t
        c1 == x[2] * t + c0 \div Limb
        c2 == x[1] * t + c1 \div Limb
    IN  <<c2, c1 % Limb, c0 % Limb>>

UnitsFrom(x, r) ==
    IF x[1] = r * 4096 /\ x[2] = 0 THEN x[3]
    ELSE IF x[1] = r * 4096 - 1 /\ x[2] = Limb - 1 THEN Limb - x[3]
    ELSE Limb

AtMostFive(x) == x[1] < 5 * 4096 \/ x = FromInt(5)

\* C13: in every reachable state each performance_metrics row has
\* total_attempts >= 1, 0 <= success_count <= total_attempts and success_rate
\* equal to success_count / total_attempts.
C13_MetricRowConsistent ==
    \A r \in performance_metrics :
        /\ r.total_attempts >= 1
        /\ 0 <= r.success_count /\ r.success_count <= r.total_attempts
        /\ r.success_rate = Quotient(r.success_count, r.total_attempts)

C13_Witness ==
    \E r \in performance_metrics :
        /\ r.total_attempts = 3 /\ r.success_count = 2
        /\ r.success_rate = <<2, 3>>

\* C14 as stated: after n >= 1 calls of updateTrickMetrics, one after another,
\* on a fresh pair, average_user_rating * total_attempts equals the sum of the
\* n ratings supplied, and average_user_rating is at most 5.
C14_RunningMeanExact ==
    \A r \in performance_metrics :
        /\ Times(r.average_user_rating, r.total_attempts) = FromInt(ratingSum)
        /\ AtMostFive(r.average_user_rating)

\* C14, amended: after n >= 1 calls of updateTrickMetrics, one after another,
\* on a fresh pair, average_user_rating is the arithmetic mean of the n
\* ratings supplied up to the rounding of binary64 arithmetic (it differs
\* from the mean by at most 2^-48), and it lies between 1 and 5.
C14_RunningMeanWithinRounding ==
    \A r \in performance_metrics :
        /\ UnitsFrom(ExactTimes(r.average_user_rating, r.total_attempts), ratingSum)
             <= 16 * r.total_attempts
        /\ r.average_user_rating[1] >= 4096
        /\ AtMostFive(r.average_user_rating)

C14_Witness ==
    \E r \in performance_metrics :
        /\ r.total_attempts = 7 /\ ratingSum = 29
        /\ Times(r.average_user_rating, r.total_attempts) # FromInt(ratingSum)

(***************************************************************************)
(* Session end: counters of the persona and rows of the pair, checked      *)
(* under SpecEnd.                                                          *)
(***************************************************************************)
\* The experiences whose captureExperience has returned.
Captured ==
    succeeded \cup {req[e].expId : e \in {c \in Clients : req[c].pc = "endSession"}}

RECURSIVE GainOf(_)
GainOf(S) ==
    IF S = {} THEN 0
    ELSE LET i == CHOOSE x \in S : TRUE
         IN  calculateExpGain(experiences[i]) + GainOf(S \ {i})

Range(seq) == {seq[i] : i \in DOMAIN seq}

\* C15: in every reachable state performance_metrics holds at most one row
\* per (mentalist_id, trick_name) pair, and one once captureExperience has
\* returned for an experience of the pair, also when two session ends that
\* both found no row for the pair run concurrently.
C15_OneMetricRowPerPair ==
    /\ \A r1, r2 \in performance_metrics :
          (r1.mentalist_id = r2.mentalist_id /\ r1.trick_name = r2.trick_name)
             => r1 = r2
    /\ \A i \in Captured :
          MetricRows(experiences[i].mentalist_id,
                     experiences[i].trick_performed) # {}

C15_Witness ==
    \E e \in Clients :
        /\ req[e].pc = "writeMetric" /\ req[e].existing = NoRow
        /\ Cardinality(MetricRows(req[e].mentalistId,
                                  req[e].experience.trick_performed)) = 1

AllCaptured == \A i \in DOMAIN experiences : i \in Captured

StatsCountCaptures ==
    AllCaptured
    => \A m \in DOMAIN mentalists :
          LET of == {i \in DOMAIN experiences : experiences[i].mentalist_id = m}
          IN  /\ mentalists[m].total_performances = Cardinality(of)
              /\ mentalists[m].experience_level = GainOf(of)

\* C19: whenever the captureExperience calls made for a persona, in any
\* interleaving, have all returned, its total_performances is the number of
\* the calls and its experience_level the sum of their gains, and no step
\* ever lowers experience_level.
C19_StatsCountEveryCapture ==
    [][ /\ \A m \in DOMAIN mentalists :
              mentalists'[m].experience_level >= mentalists[m].experience_level
        /\ StatsCountCaptures' ]_vars

C19_Witness ==
    /\ AllCaptured /\ NoRequestInFlight
    /\ Len(experiences) = 3
    /\ \E m \in DOMAIN mentalists : mentalists[m].total_performances = 3

\* C20: successful_tricks only grows and is a set: no step removes a trick
\* from it, no trick is in it twice, and the trick of every experience with
\* reaction amazed or engaged whose captureExperience has returned is in it.
C20_SuccessfulTricksIsSet ==
    [][ \A m \in DOMAIN mentalists :
          /\ Range(mentalists[m].successful_tricks)
                \subseteq Range(mentalists'[m].successful_tricks)
          /\ \A i, j \in DOMAIN mentalists'[m].successful_tricks :
                mentalists'[m].successful_tricks[i]
                   = mentalists'[m].successful_tricks[j] => i = j
          /\ \A i \in Captured' :
                (experiences'[i].mentalist_id = m /\ IsSuccess(experiences'[i]))
                   => experiences'[i].trick_performed
                         \in Range(mentalists'[m].successful_tricks) ]_vars

(***************************************************************************)
(* Session ends one after another: each POST /api/session/end is for a     *)
(* session still active and is answered before the next arrives, and no    *)
(* statement fails.  The sessions hold 6, 11 and 21 messages; the provider *)
(* answers any sentiment at or next to a bound of mapSentimentToReaction,  *)
(* and with or without a lesson for each reaction.                         *)
(***************************************************************************)
SessionLengths == <<6, 11, 21>>

\* The provider's mentalist_success is its own judgement: it comes with
\* either value for every sentiment.
CaptureAnalyses ==
    {[trickPerformed |-> "card_force", userSentiment |-> sentiment,
      mentalistSuccess |-> success, lessonLearned |-> ""] :
        sentiment \in {8, 7, 6, 3, 2, -3, -4, -5, -7, -8}, success \in BOOLEAN}
    \cup {[trickPerformed |-> "card_force", userSentiment |-> sentiment,
           mentalistSuccess |-> success, lessonLearned |-> "smile more"] :
             sentiment \in ReactionSentiments, success \in BOOLEAN}

LongSessions ==
    [i \in DOMAIN SessionLengths |->
       [user_id |-> Visitors[i], mentalist_id |-> "oz", start_time |-> 0,
        end_time |-> NULL, is_active |-> 1, message_count |-> SessionLengths[i]]]

\* The messages of session 1, then those of session 2, then those of session
\* 3: user and assistant turns in alternation.
LongMessages ==
    [k \in 1..(SessionLengths[1] + SessionLengths[2] + SessionLengths[3]) |->
       [session_id |-> IF k <= SessionLengths[1] THEN 1
                       ELSE IF k <= SessionLengths[1] + SessionLengths[2] THEN 2
                       ELSE 3,
        role |-> IF k % 2 = 1 THEN "user" ELSE "assistant",
        content |-> "hello",
        timestamp |-> 0]]

InitCapture ==
    /\ now = 0
    /\ tieOrder = "rowid_asc"
    /\ mentalists = [m \in Personas |-> NewMentalist]
    /\ chat_sessions = LongSessions
    /\ session_messages = LongMessages
    /\ experiences = <<>>
    /\ performance_metrics = {}
    /\ call = [c \in Callers |-> IdleCall]
    /\ lastOp = NoOp
    /\ req = [e \in Clients |-> IdleReq]
    /\ succeeded = {}
    /\ requests = 0
    /\ ratingSum = 0
    /\ NoFunctionCall

NextCapture ==
    \/ \E sid \in DOMAIN chat_sessions :
          /\ NoRequestInFlight
          /\ chat_sessions[sid].is_active = 1
          /\ EndRequest("e1", sid, "oz", chat_sessions[sid].user_id)
    \/ \E e \in Clients : SelectStartTime(e)
    \/ \E e \in Clients, answer \in CaptureAnalyses :
          AnalyzeConversation(e, TRUE, answer)
    \/ \E e \in Clients :
          AnalyzeConversation(e, FALSE, simpleAnalysis(req[e].messages))
    \/ \E e \in Clients : InsertExperience(e)
    \/ \E e \in Clients : UpdateStats(e)
    \/ \E e \in Clients : SelectTricks(e)
    \/ \E e \in Clients : UpdateTricks(e)
    \/ \E e \in Clients : SelectMetric(e)
    \/ \E e \in Clients : WriteMetric(e)
    \/ \E e \in Clients : EndSessionRow(e)

SpecCapture == InitCapture /\ [][NextCapture]_vars

\* C16: the mapping of sentiment to reaction is total and single-valued:
\* every sentiment lies in the bucket of exactly one row of the table (at
\* least 0.7 amazed, 0.3 to 0.7 engaged, -0.3 to 0.3 neutral, -0.7 to -0.3
\* skeptical, below -0.7 confused, each bucket holding its lower bound),
\* mapSentimentToReaction answers that row, and every stored experience has
\* the reaction of the row of its sentiment.
C16_ReactionMatchesTable ==
    LET Table == {[reaction |-> "amazed", from |-> 7, below |-> 11],
                  [reaction |-> "engaged", from |-> 3, below |-> 7],
                  [reaction |-> "neutral", from |-> -3, below |-> 3],
                  [reaction |-> "skeptical", from |-> -7, below |-> -3],
                  [reaction |-> "confused", from |-> -10, below |-> -7]}
        RowsOf(sentiment) ==
            {row \in Table : row.from <= sentiment /\ sentiment < row.below}
    IN  /\ \A sentiment \in -10..10 :
              /\ Cardinality(RowsOf(sentiment)) = 1
              /\ \A row \in RowsOf(sentiment) :
                    mapSentimentToReaction(sentiment) = row.reaction
        /\ \A i \in DOMAIN experiences :
              \E row \in RowsOf(experiences[i].user_sentiment) :
                  experiences[i].user_reaction = row.reaction

C16_Witness ==
    /\ Len(experiences) = 2
    /\ experiences[1].user_sentiment = 7 /\ experiences[1].user_reaction = "amazed"
    /\ experiences[2].user_sentiment = -7
    /\ experiences[2].user_reaction = "skeptical"

\* C17: the step of captureExperience that updates the persona raises
\* experience_level by exactly 10 + the bonus of the reaction (20 amazed, 10
\* engaged, 5 neutral, 0 skeptical or confused) + 5 if the lesson is not
\* empty + min(max(message_count - 10, 0), 10), and no other step changes
\* experience_level.
C17_ExpGainFormula ==
    [][ \A m \in DOMAIN mentalists :
          LET raised == mentalists'[m].experience_level
                          - mentalists[m].experience_level
              updating == {e \in Clients : /\ req[e].pc = "updateStats"
                                           /\ req'[e].pc # "updateStats"
                                           /\ req[e].mentalistId = m}
              Bonus(reaction) ==
                  CASE reaction = "amazed" -> 20
                    [] reaction = "engaged" -> 10
                    [] reaction = "neutral" -> 5
                    [] reaction \in {"skeptical", "confused"} -> 0
              Expected(x) ==
                  10 + Bonus(x.user_reaction)
                  + (IF x.lesson_learned # "" THEN 5 ELSE 0)
                  + Min({Max({x.message_count - 10, 0}), 10})
          IN  /\ updating = {} => raised = 0
              /\ \A e \in updating : raised = Expected(req[e].experience) ]_vars

C17_Witness ==
    /\ Len(experiences) = 2 /\ succeeded = {1, 2}
    /\ experiences[1].message_count = 21 /\ experiences[1].lesson_learned = ""
    /\ experiences[1].user_reaction = "confused"
    /\ experiences[2].message_count = 11
    /\ experiences[2].lesson_learned = "smile more"
    /\ experiences[2].user_reaction = "engaged"
    /\ mentalists["oz"].experience_level = 20 + 26

\* C18: from a persona with experience_level 0 and total_performances 0,
\* ending a session of 6 messages analysed as card_force, sentiment 0.8,
\* lesson "smile more" gives reaction amazed, experience_level 35,
\* total_performances 1 and the row (1 attempt, 1 success, rate 1.0, average
\* rating 5.0); ending a second session analysed as card_force, sentiment
\* -0.5 then gives reaction skeptical and the row (2 attempts, 1 success,
\* rate 0.5, average rating 3.5).
C18_EndToEndTrace ==
    LET first == experiences[1]
        second == experiences[2]
        asFirst == /\ Len(experiences) >= 1 /\ 1 \in Captured
                   /\ first.message_count = 6 /\ first.user_sentiment = 8
                   /\ first.lesson_learned = "smile more"
                   /\ first.trick_performed = "card_force"
        asSecond == /\ asFirst /\ Len(experiences) = 2 /\ 2 \in Captured
                    /\ second.user_sentiment = -5
                    /\ second.trick_performed = "card_force"
    IN  /\ (asFirst /\ Len(experiences) = 1)
             => /\ first.user_reaction = "amazed"
                /\ mentalists["oz"].experience_level = 35
                /\ mentalists["oz"].total_performances = 1
                /\ \E r \in performance_metrics :
                      /\ MetricRows("oz", "card_force") = {r}
                      /\ r.total_attempts = 1 /\ r.success_count = 1
                      /\ r.success_rate = <<1, 1>>
                      /\ r.average_user_rating = FromInt(5)
        /\ asSecond
             => /\ second.user_reaction = "skeptical"
                /\ mentalists["oz"].total_performances = 2
                /\ \E r \in performance_metrics :
                      /\ MetricRows("oz", "card_force") = {r}
                      /\ r.total_attempts = 2 /\ r.success_count = 1
                      /\ r.success_rate = <<1, 2>>
                      /\ r.average_user_rating = Divide(FromInt(7), 2)

C18_Witness ==
    /\ Len(experiences) = 2 /\ succeeded = {1, 2} /\ NoRequestInFlight
    /\ experiences[1].message_count = 6 /\ experiences[1].user_sentiment = 8
    /\ experiences[1].lesson_learned = "smile more"
    /\ experiences[2].user_sentiment = -5
    /\ \E r \in performance_metrics : r.total_attempts = 2

(***************************************************************************)
(* POST /api/chat/enhanced next to POST /api/session/end                   *)
(*                                                                         *)
(* A turn of visitor u1: getOrCreateSession, saveMessage of the user's     *)
(* message, the streamed completion, saveMessage of the collected reply.   *)
(* buildEnhancedContext only reads and is left out.  The visitor's client  *)
(* may ask for the end of the session at any time.  No statement fails.    *)
(***************************************************************************)
MaxTurnMessages == 2

\* What the stream callback has collected in fullResponse when the stream is
\* done: a reply, or nothing (the provider refused, or the stream broke).
Replies == {"hello", ""}

ChatCall(pc, sid) ==
    [IdleCall EXCEPT !.op = "chat", !.pc = pc, !.user = "u1", !.mentalist = "oz",
                     !.sid = sid]

StoredMessage(sid, role, content) ==
    Append(session_messages,
           [session_id |-> sid, role |-> role, content |-> content,
            timestamp |-> now])

CountedMessage(sid) ==
    [i \in DOMAIN chat_sessions |->
       IF i = sid THEN [chat_sessions[i] EXCEPT !.message_count = @ + 1]
       ELSE chat_sessions[i]]

\* const sessionId = await enhancedChat.getOrCreateSession(userId, mentalistId)
ChatRequest(c) ==
    /\ call[c].pc = "idle"
    /\ LET found == SelectActiveSession("u1", "oz")
       IN  call' = [call EXCEPT ![c] =
                      IF found # 0 THEN ChatCall("saveUser", found)
                      ELSE ChatCall("insertSession", 0)]
    /\ UNCHANGED <<fnVars, now, tieOrder, mentalists, chat_sessions, session_messages,
                   experiences, performance_metrics, lastOp, endVars>>

ChatInsertSession(c) ==
    /\ call[c].op = "chat" /\ call[c].pc = "insertSession"
    /\ Len(chat_sessions) < MaxSessions
    /\ chat_sessions' = Append(chat_sessions,
          [user_id |-> call[c].user, mentalist_id |-> call[c].mentalist,
           start_time |-> now, end_time |-> NULL, is_active |-> 1,
           message_count |-> 0])
    /\ call' = [call EXCEPT ![c] = ChatCall("saveUser", Len(chat_sessions) + 1)]
    /\ UNCHANGED <<fnVars, now, tieOrder, mentalists, session_messages, experiences,
                   performance_metrics, lastOp, endVars>>

\* await enhancedChat.saveMessage(sessionId, 'user', ...): the INSERT
ChatSaveUser(c, content) ==
    /\ call[c].op = "chat" /\ call[c].pc = "saveUser"
    /\ Len(session_messages) < MaxTurnMessages
    /\ session_messages' = StoredMessage(call[c].sid, "user", content)
    /\ call' = [call EXCEPT ![c].pc = "countUser"]
    /\ UNCHANGED <<fnVars, now, tieOrder, mentalists, chat_sessions, experiences,
                   performance_metrics, lastOp, endVars>>

\* ... and the UPDATE of message_count; the request to the provider follows.
ChatCountUser(c) ==
    /\ call[c].op = "chat" /\ call[c].pc = "countUser"
    /\ chat_sessions' = CountedMessage(call[c].sid)
    /\ call' = [call EXCEPT ![c].pc = "streaming"]
    /\ UNCHANGED <<fnVars, now, tieOrder, mentalists, session_messages, experiences,
                   performance_metrics, lastOp, endVars>>

\* The stream is done: a collected reply is saved, an empty one is not.
StreamDone(c, fullResponse) ==
    /\ call[c].op = "chat" /\ call[c].pc = "streaming"
    /\ call' = [call EXCEPT ![c] = IF fullResponse # ""
                                   THEN [call[c] EXCEPT !.pc = "saveAssistant"]
                                   ELSE IdleCall]
    /\ UNCHANGED <<fnVars, now, tieOrder, mentalists, chat_sessions, session_messages,
                   experiences, performance_metrics, lastOp, endVars>>

\* await enhancedChat.saveMessage(sessionId, 'assistant', fullResponse)
ChatSaveAssistant(c, fullResponse) ==
    /\ call[c].op = "chat" /\ call[c].pc = "saveAssistant"
    /\ Len(session_messages) < MaxTurnMessages
    /\ session_messages' = StoredMessage(call[c].sid, "assistant", fullResponse)
    /\ call' = [call EXCEPT ![c].pc = "countAssistant"]
    /\ UNCHANGED <<fnVars, now, tieOrder, mentalists, chat_sessions, experiences,
                   performance_metrics, lastOp, endVars>>

ChatCountAssistant(c) ==
    /\ call[c].op = "chat" /\ call[c].pc = "countAssistant"
    /\ chat_sessions' = CountedMessage(call[c].sid)
    /\ call' = [call EXCEPT ![c] = IdleCall]
    /\ UNCHANGED <<fnVars, now, tieOrder, mentalists, session_messages, experiences,
                   performance_metrics, lastOp, endVars>>

\* The visitor's browser sends one turn at a time.
NextTurn ==
    \/ Tick
    \/ ChatRequest("c1")
    \/ ChatInsertSession("c1")
    \/ \E content \in {"wow", "hello"} : ChatSaveUser("c1", content)
    \/ ChatCountUser("c1")
    \/ \E fullResponse \in Replies : StreamDone("c1", fullResponse)
    \/ ChatSaveAssistant("c1", "hello")
    \/ ChatCountAssistant("c1")
    \/ \E sid \in DOMAIN chat_sessions : EndRequest("e1", sid, "oz", "u1")
    \/ \E e \in Clients : SelectStartTime(e)
    \/ \E e \in Clients, answer \in AIAnalyses : AnalyzeConversation(e, TRUE, answer)
    \/ \E e \in Clients :
          AnalyzeConversation(e, FALSE, simpleAnalysis(req[e].messages))
    \/ \E e \in Clients : InsertExperience(e)
    \/ \E e \in Clients : UpdateStats(e)
    \/ \E e \in Clients : SelectTricks(e)
    \/ \E e \in Clients : UpdateTricks(e)
    \/ \E e \in Clients : SelectMetric(e)
    \/ \E e \in Clients : WriteMetric(e)
    \/ \E e \in Clients : EndSessionRow(e)

SpecTurn == Init /\ [][NextTurn]_vars

\* The transcript a session-end request has just read.
ReadsTranscript(e, sid) ==
    /\ req[e].pc = "idle"
    /\ req'[e].pc = "selectStartTime"
    /\ req'[e].sessionId = sid

\* C11: getSessionMessages returns the messages of a session in the order
\* they were appended: ascending by timestamp (the clock never goes back, so
\* that is the order of the inserts), messages of equal timestamp in the
\* order of their inserts.
C11_TranscriptInAppendOrder ==
    [][ \A e \in Clients, sid \in DOMAIN chat_sessions :
          ReadsTranscript(e, sid)
             => LET appended == MessagesIn(session_messages, sid)
                IN  req'[e].messages =
                       [k \in DOMAIN appended |->
                          [role |-> appended[k].role,
                           content |-> appended[k].content,
                           timestamp |-> appended[k].timestamp]] ]_vars

\* A turn of the session is under way: its request has the session and the
\* reply has not been stored yet.
TurnInFlight(sid) ==
    \E c \in Callers :
        /\ call[c].op = "chat" /\ call[c].sid = sid
        /\ call[c].pc \in {"saveUser", "countUser", "streaming", "saveAssistant"}

\* C12: a session-end request never reads the messages of a session while a
\* turn of that session is under way, so the transcript it reads holds every
\* turn submitted before it, the reply included.
C12_EndReadsCompleteTranscript ==
    [][ \A e \in Clients, sid \in DOMAIN chat_sessions :
          ReadsTranscript(e, sid) => ~TurnInFlight(sid) ]_vars

(***************************************************************************)
(* The analysis provider's outcomes, checked under SpecAnalysis.           *)
(* Session ends arrive one after another for sessions still active, and no *)
(* statement of the store fails: what the provider does is all that varies.*)
(* fetch rejects (network failure), the body holds no choices (non-success *)
(* response) or JSON.parse throws (unparsable body): analyzeConversation   *)
(* catches and answers simpleAnalysis.  A body that parses is answered     *)
(* field by field as it is.                                                *)
(***************************************************************************)

\* Answers that parse and hold every field, with a user_sentiment the prompt
\* did not ask for.
OutOfRangeAnalyses ==
    {[trickPerformed |-> "card_force", userSentiment |-> 15,
      mentalistSuccess |-> TRUE, lessonLearned |-> ""],
     [trickPerformed |-> "card_force", userSentiment |-> -20,
      mentalistSuccess |-> FALSE, lessonLearned |-> ""]}

ProviderAnalyses == AIAnalyses \cup OutOfRangeAnalyses

\* The answer parses but holds no what_worked (or what_didnt_work, or
\* key_moments): analyzeConversation returns the field undefined and
\* captureExperience throws on its .join before any statement.
AnalyzeIncomplete(e) ==
    /\ req[e].pc = "analyze"
    /\ req' = Thrown(e)
    /\ UNCHANGED <<fnVars, now, tieOrder, mentalists, chat_sessions, session_messages,
                   experiences, performance_metrics, chatVars, succeeded, requests>>

NextAnalysis ==
    \/ \E sid \in DOMAIN chat_sessions :
          /\ NoRequestInFlight
          /\ chat_sessions[sid].is_active = 1
          /\ EndRequest("e1", sid, "oz", chat_sessions[sid].user_id)
    \/ \E e \in Clients : SelectStartTime(e)
    \/ \E e \in Clients, answer \in ProviderAnalyses :
          AnalyzeConversation(e, TRUE, answer)
    \/ \E e \in Clients :
          AnalyzeConversation(e, FALSE, simpleAnalysis(req[e].messages))
    \/ \E e \in Clients : AnalyzeIncomplete(e)
    \/ \E e \in Clients : InsertExperience(e)
    \/ \E e \in Clients : UpdateStats(e)
    \/ \E e \in Clients : SelectTricks(e)
    \/ \E e \in Clients : UpdateTricks(e)
    \/ \E e \in Clients : SelectMetric(e)
    \/ \E e \in Clients : WriteMetric(e)
    \/ \E e \in Clients : EndSessionRow(e)

SpecAnalysis == InitEnd /\ [][NextAnalysis]_vars

\* C21: whatever the analysis provider does (network failure, non-success
\* response, unparsable body, or a parsed object lacking fields of the
\* schema), the session-end request goes on to store its experience: a
\* request that is analysing its transcript is never answered an error.
C21_AnalysisNeverFailsEnd ==
    [][ \A e \in Clients : req[e].pc = "analyze" => req'[e].pc # "idle" ]_vars

\* C23: every stored experience has its user_sentiment within [-1, 1],
\* whichever analysis produced it and whatever the provider answered.
C23_SentimentInRange ==
    \A i \in DOMAIN experiences :
        /\ experiences[i].user_sentiment >= -10
        /\ experiences[i].user_sentiment <= 10

(***************************************************************************)
(* simpleAnalysis on its own, checked under SpecFallback: the function is  *)
(* applied to every transcript of up to MaxTranscript messages whose roles *)
(* and contents are drawn from Roles and Utterances.                       *)
(***************************************************************************)
MaxTranscript == 2

Roles == {"user", "assistant", "system"}

Utterances == {"", "hello", "wow", "WOW", "so Cool!", "uncool", "w o w", "awe"}

InitFallback ==
    /\ now = 0
    /\ tieOrder = "rowid_asc"
    /\ mentalists = [m \in Personas |-> NewMentalist]
    /\ chat_sessions = <<>>
    /\ session_messages = <<>>
    /\ experiences = <<>>
    /\ performance_metrics = {}
    /\ call = [c \in Callers |-> IdleCall]
    /\ lastOp = NoOp
    /\ req = [e \in Clients |-> IdleReq]
    /\ succeeded = {}
    /\ requests = 0
    /\ ratingSum = 0
    /\ transcript \in
          UNION {[1..n -> [role : Roles, content : Utterances,
                           timestamp : {0}]] : n \in 0..MaxTranscript}
    /\ result = NoAnalysis
    /\ NoStream
    /\ NoMemoryCall

\* const analysis = this.simpleAnalysis(messages)
SimpleAnalysis ==
    /\ result = NoAnalysis
    /\ result' = simpleAnalysis(transcript)
    /\ UNCHANGED <<ratingSum, transcript, streamVars, memoryVars, now, tieOrder, mentalists, chat_sessions,
                   session_messages, experiences, performance_metrics, chatVars,
                   endVars>>

NextFallback == SimpleAnalysis

SpecFallback == InitFallback /\ [][NextFallback]_vars

\* C22: the fallback analysis is a function of the transcript alone: its
\* sentiment is 0.7 when some turn written by the user holds a word of the
\* positive lexicon (in any case of its letters, anywhere in the turn) and
\* 0.5 otherwise, turns of the agent and of the system counting for nothing;
\* its technique is "general_interaction"; it reports success exactly when
\* the sentiment is at least 0.7; and it returns for every transcript, the
\* empty one included.
C22_FallbackIsFunctionOfTranscript ==
    [][ LET positive ==
                \E i \in DOMAIN transcript :
                    /\ transcript[i].role = "user"
                    /\ transcript[i].content \in {"wow", "WOW", "so Cool!", "uncool"}
        IN  /\ result' # NoAnalysis
            /\ result'.userSentiment = IF positive THEN 7 ELSE 5
            /\ result'.trickPerformed = "general_interaction"
            /\ result'.mentalistSuccess = (result'.userSentiment >= 7) ]_vars

\* The fallback has answered 0.7 for a transcript whose only positive word of
\* the user is in capitals and follows a turn of the agent.
C22_Witness ==
    /\ result # NoAnalysis
    /\ transcript = <<[role |-> "assistant", content |-> "hello", timestamp |-> 0],
                      [role |-> "user", content |-> "WOW", timestamp |-> 0]>>
    /\ result.userSentiment = 7
    /\ result.mentalistSuccess

(***************************************************************************)
(* The read loops of the streamed completion, checked under SpecStream.    *)
(*                                                                         *)
(* POST /api/chat/enhanced and POST /api/chat read the provider's body,    *)
(* streamChatBackend (the browser) reads the body POST /api/chat writes.   *)
(* A reader.read() returns the next bytes, as many of them as the network  *)
(* has delivered, or done at the end of the body, or throws when the       *)
(* connection has broken.  Bytes are the characters of a string.           *)
(***************************************************************************)
MaxLines == 2

\* buffer.split("\n")
RECURSIVE Split(_)
Split(s) ==
    IF \E i \in 1..Len(s) : SubSeq(s, i, i) = "\n"
    THEN LET i == CHOOSE i \in 1..Len(s) :
                      /\ SubSeq(s, i, i) = "\n"
                      /\ \A j \in 1..(i - 1) : SubSeq(s, j, j) # "\n"
         IN  <<SubSeq(s, 1, i - 1)>> \o Split(SubSeq(s, i + 1, Len(s)))
    ELSE <<s>>

\* The lines before the last: what is left in lines after lines.pop().
Complete(lines) == SubSeq(lines, 1, Len(lines) - 1)

\* A read loop that keeps nothing of the last, unterminated line.
CarriedNothing(lines) == ""

\* buffer = lines.pop() || ""
Carried(lines) == lines[Len(lines)]

\* line.trim()
RECURSIVE Trim(_)
Trim(s) ==
    LET WhiteSpace == {" ", "\t", "\r", "\n"}
    IN  IF s = "" THEN s
        ELSE IF SubSeq(s, 1, 1) \in WhiteSpace THEN Trim(SubSeq(s, 2, Len(s)))
        ELSE IF SubSeq(s, Len(s), Len(s)) \in WhiteSpace
             THEN Trim(SubSeq(s, 1, Len(s) - 1))
        ELSE s

\* trimmed.startsWith(prefix)
StartsWith(s, prefix) ==
    Len(s) >= Len(prefix) /\ SubSeq(s, 1, Len(prefix)) = prefix

\* if (!trimmed || !trimmed.startsWith("data: ")) continue
Skipped(line) == Trim(line) = "" \/ ~StartsWith(Trim(line), "data: ")

\* trimmed.substring(6), trimmed.slice(6)
Data(line) == SubSeq(Trim(line), 7, Len(Trim(line)))

\* JSON.parse of the payloads the streams below carry; anything else they
\* carry is no JSON and JSON.parse throws a SyntaxError.
SyntaxError == [name |-> "SyntaxError"]

JSONParse(data) ==
    CASE data = "{\"choices\":[{\"delta\":{\"content\":\"Hi\"}}]}" ->
            [choices |-> <<[delta |-> [content |-> "Hi"]]>>]
      [] data = "{\"choices\":[{\"delta\":{\"content\":\"!\"}}]}" ->
            [choices |-> <<[delta |-> [content |-> "!"]]>>]
      [] data = "{\"choices\":[]}" -> [choices |-> <<>>]
      [] data = "{\"error\": \"terminated\"}" -> [error |-> "terminated"]
      [] OTHER -> SyntaxError

\* try { parsed.choices?.[0]?.delta?.content } catch { }: the text of the
\* delta, "" when there is none.
DeltaContent(data) ==
    LET parsed == JSONParse(data)
    IN  IF /\ parsed # SyntaxError
           /\ "choices" \in DOMAIN parsed
           /\ Len(parsed.choices) >= 1
           /\ "delta" \in DOMAIN parsed.choices[1]
           /\ "content" \in DOMAIN parsed.choices[1].delta
        THEN parsed.choices[1].delta.content
        ELSE ""

\* for (const line of lines) { ... } of the three loops: the lines processed,
\* the text collected from them, whether the loop has returned, and the
\* callbacks the browser's loop has called.
RECURSIVE ForLines(_, _)
ForLines(kind, lines) ==
    IF lines = <<>>
    THEN [frames |-> <<>>, text |-> "", returned |-> FALSE, calls |-> <<>>]
    ELSE LET line == Head(lines)
             rest == ForLines(kind, Tail(lines))
         IN  IF Skipped(line) THEN rest
             ELSE IF kind = "client" /\ Data(line) = "[DONE]"
                  THEN [frames |-> <<line>>, text |-> "", returned |-> TRUE,
                        calls |-> <<"onDone">>]
             ELSE [frames |-> <<line>> \o rest.frames,
                   text |-> (IF kind = "chat" \/ Trim(line) = "data: [DONE]"
                             THEN "" ELSE DeltaContent(Data(line))) \o rest.text,
                   returned |-> rest.returned,
                   calls |-> (IF kind = "client" /\ DeltaContent(Data(line)) # ""
                              THEN <<"onChunk">> ELSE <<>>) \o rest.calls]

\* The lines a provider's body is made of: two deltas (the second indented
\* and ended by CR LF), a comment, an empty line, a line without the space
\* of the prefix, a delta cut short, and the end-of-stream marker.
ProviderLines ==
    {"data: {\"choices\":[{\"delta\":{\"content\":\"Hi\"}}]}",
     "  data: {\"choices\":[{\"delta\":{\"content\":\"!\"}}]}\r",
     ": ping",
     "",
     "data:{\"choices\":[]}",
     "data: {\"cho",
     "data: [DONE]"}

RECURSIVE Joined(_, _)
Joined(lines, terminator) ==
    IF lines = <<>> THEN ""
    ELSE Head(lines) \o terminator \o Joined(Tail(lines), terminator)

ProviderStreams ==
    {Joined(lines, "\n") \o tail :
        lines \in UNION {[1..n -> ProviderLines] : n \in 0..MaxLines},
        tail \in {"", "data: [DO"}}

InitStream ==
    /\ now = 0
    /\ tieOrder = "rowid_asc"
    /\ mentalists = [m \in Personas |-> NewMentalist]
    \* A visitor's turn has reached its stream callback: the session holds
    \* the visitor's message.
    /\ chat_sessions =
          <<[user_id |-> "u1", mentalist_id |-> "oz", start_time |-> 0,
             end_time |-> NULL, is_active |-> 1, message_count |-> 1]>>
    /\ session_messages =
          <<[session_id |-> 1, role |-> "user", content |-> "hello",
             timestamp |-> 0]>>
    /\ experiences = <<>>
    /\ performance_metrics = {}
    /\ lastOp = NoOp
    /\ req = [e \in Clients |-> IdleReq]
    /\ succeeded = {}
    /\ requests = 0
    /\ ratingSum = 0
    /\ transcript = <<>>
    /\ result = NoAnalysis
    /\ NoMemoryCall
    /\ consumer \in {"enhanced", "chat", "client"}
    /\ call = [c \in Callers |->
                 IF c = "c1" /\ consumer = "enhanced"
                 THEN ChatCall("streaming", 1) ELSE IdleCall]
    /\ upstream \in ProviderStreams
    /\ arrived = ""
    /\ buffer = ""
    /\ frames = <<>>
    /\ collected = ""
    /\ outcome = "reading"
    /\ aborted = FALSE
    /\ callbacks = <<>>

\* One turn of while (true): reader.read() returns the next n bytes, the
\* loop splits what it holds into lines and processes the complete ones.
Read(n) ==
    /\ outcome = "reading"
    /\ n \in 1..Len(upstream)
    /\ LET lines == Split(buffer \o SubSeq(upstream, 1, n))
           done == ForLines(consumer, Complete(lines))
       IN  /\ buffer' = Carried(lines)
           /\ frames' = frames \o done.frames
           /\ collected' = collected \o done.text
           /\ outcome' = IF done.returned THEN "done" ELSE "reading"
           /\ callbacks' = callbacks \o done.calls
    /\ arrived' = arrived \o SubSeq(upstream, 1, n)
    /\ upstream' = SubSeq(upstream, n + 1, Len(upstream))
    /\ UNCHANGED <<ratingSum, argVars, memoryVars, consumer, aborted, now, tieOrder, mentalists,
                   chat_sessions, session_messages, experiences,
                   performance_metrics, chatVars, endVars>>

\* if (done) break: the body has ended.  POST /api/chat/enhanced goes on to
\* save fullResponse when it is not empty.
ReadDone ==
    /\ outcome = "reading"
    /\ upstream = ""
    /\ outcome' = "done"
    /\ callbacks' = IF consumer = "client" THEN Append(callbacks, "onDone")
                    ELSE callbacks
    /\ call' = IF consumer = "enhanced"
               THEN [call EXCEPT !["c1"] =
                       IF collected # "" THEN [call["c1"] EXCEPT !.pc = "saveAssistant"]
                       ELSE IdleCall]
               ELSE call
    /\ UNCHANGED <<ratingSum, argVars, memoryVars, consumer, upstream, arrived, buffer, frames,
                   collected, aborted, now, tieOrder, mentalists, chat_sessions,
                   session_messages, experiences, performance_metrics, lastOp,
                   endVars>>

\* A read loop outside its try: the rejection reaches no callback.
ReadThrowsUncaught ==
    /\ outcome = "reading"
    /\ outcome' = "error"
    /\ aborted' = TRUE
    /\ call' = [call EXCEPT !["c1"] = IdleCall]
    /\ UNCHANGED <<ratingSum, argVars, memoryVars, consumer, upstream, arrived, buffer, frames,
                   collected, callbacks, now, tieOrder, mentalists, chat_sessions,
                   session_messages, experiences, performance_metrics, lastOp,
                   endVars>>

\* reader.read() throws: the connection has broken.  The handlers catch,
\* write an error event and are done; the browser calls onError.
ReadThrows ==
    /\ outcome = "reading"
    /\ outcome' = "error"
    /\ aborted' = TRUE
    /\ callbacks' = IF consumer = "client" THEN Append(callbacks, "onError")
                    ELSE callbacks
    /\ call' = [call EXCEPT !["c1"] = IdleCall]
    /\ UNCHANGED <<ratingSum, argVars, memoryVars, consumer, upstream, arrived, buffer, frames,
                   collected, now, tieOrder, mentalists, chat_sessions,
                   session_messages, experiences, performance_metrics, lastOp,
                   endVars>>

\* What POST /api/chat has written to its response: each line forwarded and
\* two line terminators, then the completion signal or the error event.
Written ==
    Joined(frames, "\n\n")
       \o (IF outcome = "done" THEN "data: [DONE]\n\n"
           ELSE "data: {\"error\": \"terminated\"}\n\n")

\* The browser reads the response of POST /api/chat.
Deliver ==
    /\ consumer = "chat"
    /\ outcome \in {"done", "error"}
    /\ consumer' = "client"
    /\ upstream' = Written
    /\ arrived' = ""
    /\ buffer' = ""
    /\ frames' = <<>>
    /\ collected' = ""
    /\ outcome' = "reading"
    /\ UNCHANGED <<ratingSum, argVars, memoryVars, aborted, callbacks, now, tieOrder,
                   mentalists, chat_sessions, session_messages, experiences,
                   performance_metrics, chatVars, endVars>>

\* The browser's fetch of POST /api/chat brings no stream: the handler
\* answers a status that is not ok (no key configured, no messages, the
\* provider's own status), the response has no body, or fetch rejects.
\* streamChatBackend calls onError and returns.
FetchWithoutStream(how) ==
    /\ consumer = "chat"
    /\ outcome = "reading"
    /\ arrived = ""
    /\ consumer' = "client"
    /\ upstream' = ""
    /\ outcome' = how
    /\ callbacks' = <<"onError">>
    /\ UNCHANGED <<ratingSum, argVars, memoryVars, arrived, buffer, frames, collected,
                   aborted, now, tieOrder, mentalists, chat_sessions,
                   session_messages, experiences, performance_metrics, chatVars,
                   endVars>>

NextStream ==
    \/ \E n \in 1..Len(upstream) : Read(n)
    \/ ReadDone
    \/ ReadThrows
    \/ Deliver
    \/ \E how \in {"status", "body", "fetch"} : FetchWithoutStream(how)
    \/ ChatSaveAssistant("c1", collected)
    \/ ChatCountAssistant("c1")

SpecStream == InitStream /\ [][NextStream]_vars

\* C24: however the bytes of a body are cut into reads, the lines a read
\* loop has processed are exactly the lines of the bytes read so far that
\* have their terminator and carry the prefix "data: ", in their order (for
\* the browser, which stops at the end-of-stream marker, those up to the
\* marker); a line is not processed before its terminator is read, and a
\* line without the prefix yields no frame and no error: a loop ends in
\* error only when its connection breaks.
C24_LineAssemblyIgnoresReadBoundaries ==
    LET ends == {i \in 1..Len(arrived) : SubSeq(arrived, i, i) = "\n"}
        End(k) == CHOOSE i \in ends : Cardinality({j \in ends : j < i}) = k - 1
        \* The characters between one line terminator and the next.
        terminated ==
            [k \in 1..Cardinality(ends) |->
               SubSeq(arrived, IF k = 1 THEN 1 ELSE End(k - 1) + 1, End(k) - 1)]
        CarriesPrefix(line) == StartsWith(Trim(line), "data: ")
        IsMarker(line) == Trim(line) = "data: [DONE]"
        prefixed == SelectSeq(terminated, CarriesPrefix)
        \* The lines up to the first end-of-stream marker, the marker included.
        upToMarker ==
            IF \E k \in DOMAIN prefixed : IsMarker(prefixed[k])
            THEN SubSeq(prefixed, 1,
                        CHOOSE k \in DOMAIN prefixed :
                           /\ IsMarker(prefixed[k])
                           /\ \A j \in 1..(k - 1) : ~IsMarker(prefixed[j]))
            ELSE prefixed
    IN  consumer # "none" =>
            /\ frames = IF consumer = "client" THEN upToMarker ELSE prefixed
            /\ outcome = "error" => aborted

\* A delta has been processed after a line without the prefix, and the
\* first bytes of the line after it are held back in buffer: the last read
\* ended inside that line.
C24_Witness ==
    /\ consumer = "enhanced"
    /\ arrived = ": ping\ndata: {\"choices\":[{\"delta\":{\"content\":\"Hi\"}}]}\ndata: [D"
    /\ frames = <<"data: {\"choices\":[{\"delta\":{\"content\":\"Hi\"}}]}">>
    /\ collected = "Hi"
    /\ buffer = "data: [D"

\* C25: when the provider's stream breaks after a delta has been received,
\* the text collected so far is stored as the assistant's message of the
\* turn.
C25_PartialTextPersisted ==
    (/\ consumer = "enhanced"
     /\ outcome = "error"
     /\ collected # "")
        => \E i \in DOMAIN session_messages :
              /\ session_messages[i].session_id = 1
              /\ session_messages[i].role = "assistant"
              /\ session_messages[i].content = collected

\* C26: when the provider's stream has broken, the browser's turn ends with
\* onError, never with onDone.
C26_AbortSurfacesAsError ==
    (/\ consumer = "client"
     /\ aborted
     /\ outcome # "reading")
        => outcome = "error"

(***************************************************************************)
(* Session ends that name a persona the store does not hold, checked under *)
(* SpecPersona.  POST /api/session/end takes mentalistId from the request  *)
(* body; the requests arrive one after another, for sessions that hold     *)
(* messages, and neither the provider nor a statement of the store fails   *)
(* for any other reason.                                                   *)
(***************************************************************************)
UnknownPersonas == {"nobody"}

NextPersona ==
    \/ \E sid \in DOMAIN chat_sessions, m \in Personas \cup UnknownPersonas :
          /\ NoRequestInFlight
          /\ chat_sessions[sid].is_active = 1
          /\ EndRequest("e1", sid, m, chat_sessions[sid].user_id)
    \/ \E e \in Clients : SelectStartTime(e)
    \/ \E e \in Clients, answer \in AIAnalyses : AnalyzeConversation(e, TRUE, answer)
    \/ \E e \in Clients :
          AnalyzeConversation(e, FALSE, simpleAnalysis(req[e].messages))
    \/ \E e \in Clients : InsertExperience(e)
    \/ \E e \in Clients : UpdateStats(e)
    \/ \E e \in Clients : SelectTricks(e)
    \/ \E e \in Clients : UpdateTricks(e)
    \/ \E e \in Clients : SelectMetric(e)
    \/ \E e \in Clients : WriteMetric(e)
    \/ \E e \in Clients : EndSessionRow(e)

SpecPersona == InitEnd /\ [][NextPersona]_vars

\* C27: a session end that names a persona absent from the store is answered
\* a failure: it stores no experience and no metric row for that persona, it
\* never gets past the INSERT of the experience, and so it is never answered
\* success.
C27_UnknownPersonaFails ==
    /\ \A i \in DOMAIN experiences : experiences[i].mentalist_id \in DOMAIN mentalists
    /\ \A r \in performance_metrics : r.mentalist_id \in DOMAIN mentalists
    /\ \A e \in Clients :
          req[e].mentalistId \in UnknownPersonas
             => req[e].pc \in {"selectStartTime", "analyze", "insertExperience"}
    /\ \A i \in succeeded : experiences[i].mentalist_id \in DOMAIN mentalists

\* Two session ends have been received and answered, and nothing has been
\* stored: both named the unknown persona and failed.
C27_Witness ==
    /\ requests = 2
    /\ NoRequestInFlight
    /\ experiences = <<>>
    /\ performance_metrics = {}
    /\ \A sid \in DOMAIN chat_sessions : chat_sessions[sid].is_active = 1

(***************************************************************************)
(* userMemory.ts: generateMemorySummary and synthesizeLearnings, checked   *)
(* under SpecMemory.  Each is called on a table of experiences that no     *)
(* request is writing to.  The rows were inserted in the last second of    *)
(* one day or the first second of the next, by two users with two          *)
(* personas; the call is made on the latter day or the day after.  What    *)
(* the functions return is modelled by the fields their text is built      *)
(* from; the sections of the briefing other than the table of tricks are   *)
(* left out.                                                               *)
(***************************************************************************)
MaxOutcomes == 2

SecondsPerDay == 60 * 60 * 24
MillisPerDay == 1000 * SecondsPerDay

MemoryPersonas == Personas \cup {"maya"}

\* Tables whose rows stand in the order of their inserts.
OutcomeTables ==
    LET OutcomeRows ==
            {[mentalist_id |-> m, user_id |-> u, session_id |-> 0,
              timestamp |-> at, trick_performed |-> k.trick_performed,
              user_reaction |-> k.user_reaction,
              user_sentiment |-> k.user_sentiment,
              lesson_learned |-> k.lesson_learned,
              message_count |-> 2, duration_seconds |-> 0] :
                m \in MemoryPersonas, u \in Users,
                at \in {SecondsPerDay - 1, SecondsPerDay},
                k \in {[trick_performed |-> "card_force",
                        user_reaction |-> "amazed", user_sentiment |-> 8,
                        lesson_learned |-> "smile more"],
                       [trick_performed |-> "general_interaction",
                        user_reaction |-> "skeptical", user_sentiment |-> -5,
                        lesson_learned |-> ""]}}
    IN  {[i \in DOMAIN rows |-> [rows[i] EXCEPT !.session_id = i]] :
            rows \in {t \in UNION {[1..n -> OutcomeRows] : n \in 0..MaxOutcomes} :
                        \A i, j \in DOMAIN t :
                            i < j => t[i].timestamp <= t[j].timestamp}}

\* The SELECT without its LIMIT.
RecentFirstNoLimit(ids, limit) ==
    LET Before(i, j) ==
            \/ experiences[i].timestamp > experiences[j].timestamp
            \/ /\ experiences[i].timestamp = experiences[j].timestamp
               /\ IF tieOrder = "rowid_asc" THEN i < j ELSE i > j
        At(k) == CHOOSE i \in ids : Cardinality({j \in ids : Before(j, i)}) = k - 1
    IN  [k \in 1..Cardinality(ids) |-> At(k)]

\* SELECT ... FROM experiences WHERE <ids> ORDER BY timestamp DESC LIMIT ?:
\* the rowids of the rows returned, in the order returned.
RecentFirst(ids, limit) ==
    LET Before(i, j) ==
            \/ experiences[i].timestamp > experiences[j].timestamp
            \/ /\ experiences[i].timestamp = experiences[j].timestamp
               /\ IF tieOrder = "rowid_asc" THEN i < j ELSE i > j
        At(k) == CHOOSE i \in ids : Cardinality({j \in ids : Before(j, i)}) = k - 1
    IN  [k \in 1..Min({limit, Cardinality(ids)}) |-> At(k)]

\* array.filter((x, index, self) => self.indexOf(x) === index)
RECURSIVE Distinct(_)
Distinct(seq) ==
    IF seq = <<>> THEN <<>>
    ELSE LET front == Distinct(SubSeq(seq, 1, Len(seq) - 1))
             last == seq[Len(seq)]
         IN  IF \E k \in DOMAIN front : front[k] = last THEN front
             ELSE Append(front, last)

\* .sort((a, b) => parseFloat(b.successRate) - parseFloat(a.successRate)): by
\* descending success rate, stable.
SortedBySuccessRate(patterns) ==
    LET Before(i, j) ==
            \/ patterns[i].successRate > patterns[j].successRate
            \/ /\ patterns[i].successRate = patterns[j].successRate
               /\ i < j
        At(k) == CHOOSE i \in DOMAIN patterns :
                    Cardinality({j \in DOMAIN patterns : Before(j, i)}) = k - 1
    IN  [k \in DOMAIN patterns |-> patterns[At(k)]]

\* array.slice(0, n)
Slice(seq, n) == SubSeq(seq, 1, Min({n, Len(seq)}))

RECURSIVE Sum(_)
Sum(seq) == IF seq = <<>> THEN 0 ELSE Head(seq) + Sum(Tail(seq))

\* getUserHistory(userId, mentalistId, 5)
HistoryLimit == 5

\* WHERE user_id = ? with the persona left out.
OwnRowsAnyPersona(userId, mentalistId) ==
    {i \in DOMAIN experiences : experiences[i].user_id = userId}

\* WHERE user_id = ? AND mentalist_id = ?
OwnRows(userId, mentalistId) ==
    {i \in DOMAIN experiences :
        /\ experiences[i].user_id = userId
        /\ experiences[i].mentalist_id = mentalistId}

\* SELECT trick_performed, COUNT(*) as count ... GROUP BY trick_performed
\*   ORDER BY count DESC LIMIT 3
FavoriteTopics(own) ==
    LET FirstRow(trick) ==
            Min({i \in own : experiences[i].trick_performed = trick})
        Count(trick) ==
            Cardinality({i \in own : experiences[i].trick_performed = trick})
        groups == {experiences[i].trick_performed : i \in own}
        Before(a, b) ==
            \/ Count(a) > Count(b)
            \/ /\ Count(a) = Count(b)
               /\ IF tieOrder = "rowid_asc" THEN FirstRow(a) < FirstRow(b)
                  ELSE FirstRow(a) > FirstRow(b)
        At(k) == CHOOSE a \in groups :
                    Cardinality({b \in groups : Before(b, a)}) = k - 1
    IN  [k \in 1..Min({3, Cardinality(groups)}) |-> At(k)]

\* sentimentTrend is kept as the pair <<sum, length>> of its quotient, the
\* sentiments in tenths.
getUserHistory(userId, mentalistId, limit) ==
    LET own == OwnRows(userId, mentalistId)
        totalConversations == Cardinality(own)
        recent == RecentFirst(own, limit)
        recentExperiences == [k \in DOMAIN recent |-> experiences[recent[k]]]
        nothing == [totalConversations |-> totalConversations,
                    lastInteraction |-> NULL, recentTopics |-> <<>>,
                    favoriteTopics |-> <<>>, sentimentTrend |-> <<0, 1>>,
                    memorableExperiences |-> <<>>]
        Memorable(exp) == exp.user_reaction = "amazed" \/ exp.lesson_learned # ""
    IN  IF totalConversations = 0 \/ Len(recentExperiences) = 0 THEN nothing
        ELSE [totalConversations |-> totalConversations,
              lastInteraction |-> recentExperiences[1].timestamp * 1000,
              recentTopics |->
                  Slice(Distinct([k \in DOMAIN recentExperiences |->
                                    recentExperiences[k].trick_performed]), 3),
              favoriteTopics |-> FavoriteTopics(own),
              sentimentTrend |->
                  <<Sum([k \in DOMAIN recentExperiences |->
                           recentExperiences[k].user_sentiment]),
                    Len(recentExperiences)>>,
              memorableExperiences |->
                  LET kept == SelectSeq(recentExperiences, Memorable)
                  IN  [k \in DOMAIN kept |->
                         [date |-> kept[k].timestamp * 1000,
                          reaction |-> kept[k].user_reaction]]]

\* sentimentToText of the quotient sum / length
sentimentToText(sentiment) ==
    LET sum == sentiment[1]
        length == sentiment[2]
    IN  IF sum >= 7 * length THEN "Very positive - they love your performances!"
        ELSE IF sum >= 3 * length THEN "Positive - engaged and interested"
        ELSE IF sum >= -3 * length THEN "Neutral - curious but reserved"
        ELSE IF sum >= -7 * length THEN "Skeptical - needs convincing"
        ELSE "Very skeptical - work to win them over"

\* generateMemorySummary when Date.now() is dateNow.
generateMemorySummary(userId, mentalistId, dateNow) ==
    LET history == getUserHistory(userId, mentalistId, HistoryLimit)
        daysSinceLastInteraction ==
            IF history.lastInteraction # NULL
            THEN (dateNow - history.lastInteraction) \div MillisPerDay
            ELSE 0
        moments == Slice(history.memorableExperiences, 3)
    IN  IF history.totalConversations = 0
        THEN [userId |-> userId, mentalistId |-> mentalistId,
              heading |-> "## NEW USER"]
        ELSE [userId |-> userId, mentalistId |-> mentalistId,
              heading |-> "## REMEMBER THIS USER",
              totalConversations |-> history.totalConversations,
              daysSinceLastInteraction |-> daysSinceLastInteraction,
              lastInteraction |-> IF daysSinceLastInteraction = 0 THEN "Today"
                                  ELSE "days ago",
              favoriteTopics |-> history.favoriteTopics,
              overallSentiment |-> sentimentToText(history.sentimentTrend),
              moments |->
                  [k \in DOMAIN moments |->
                     [daysAgo |-> (dateNow - moments[k].date) \div MillisPerDay,
                      reaction |-> moments[k].reaction]]]

\* analyzeSuccessfulTricks: successRate is the text of toFixed(1), kept as
\* the number of tenths of a percent it reads.
analyzeSuccessfulTricks(rows) ==
    LET names == Distinct([k \in DOMAIN rows |-> rows[k].trick_performed])
        Of(trick) == SelectSeq(rows, LAMBDA exp : exp.trick_performed = trick)
        Succeeded(exp) == exp.user_reaction = "amazed" \/ exp.user_reaction = "engaged"
        HasLesson(exp) == exp.lesson_learned # ""
        Pattern(trick) ==
            LET attempts == Len(Of(trick))
                successes == Len(SelectSeq(Of(trick), Succeeded))
                insights == SelectSeq(Of(trick), HasLesson)
            IN  [name |-> trick,
                 successRate |-> (2000 * successes + attempts) \div (2 * attempts),
                 keyInsight |-> IF insights = <<>> THEN "Consistent performance"
                                ELSE insights[Len(insights)].lesson_learned,
                 timesPerformed |-> attempts]
    IN  Slice(SortedBySuccessRate([k \in DOMAIN names |-> Pattern(names[k])]), 5)

\* extractContextualInsights(experiences): the sentiments are grouped by
\* new Date(exp.timestamp * 1000).getHours(); Object.entries lists the hours
\* in ascending order.  user_sentiment is kept in tenths, so avg > 0.6 reads
\* Sum > 6 * length (the sentiments drawn below keep every mean away from
\* 0.6 by more than the rounding of the division).
extractContextualInsights(rows) ==
    LET Hour(exp) == (exp.timestamp \div 3600) % 24
        hours == {Hour(rows[k]) : k \in DOMAIN rows}
        sentiments(hour) ==
            LET at == SelectSeq(rows, LAMBDA exp : Hour(exp) = hour)
            IN  [k \in DOMAIN at |-> at[k].user_sentiment]
        Good(hour) == /\ Sum(sentiments(hour)) > 6 * Len(sentiments(hour))
                      /\ Len(sentiments(hour)) > 3
        good == {hour \in hours : Good(hour)}
        At(k) == CHOOSE hour \in good :
                    Cardinality({other \in good : other < hour}) = k - 1
        timeRange(hour) == IF hour < 12 THEN "morning"
                           ELSE IF hour < 18 THEN "afternoon" ELSE "evening"
        insights == [k \in 1..Cardinality(good) |->
                       [context |-> "Performances in the " \o timeRange(At(k)),
                        insight |-> "Show particularly high engagement"]]
    IN  Slice(IF Len(insights) = 0
              THEN <<[context |-> "All time periods",
                      insight |-> "Show consistent performance"]>>
              ELSE insights, 3)

\* synthesizeLearnings(mentalistId, experienceWindow)
synthesizeLearnings(mentalistId, experienceWindow) ==
    LET recent == RecentFirst({i \in DOMAIN experiences :
                                 experiences[i].mentalist_id = mentalistId},
                              experienceWindow)
        recentExperiences == [k \in DOMAIN recent |-> experiences[recent[k]]]
    IN  IF Len(recentExperiences) = 0
        THEN [mentalistId |-> mentalistId, experienceWindow |-> experienceWindow,
              heading |-> "## No learning experiences yet. This is your first performance!"]
        ELSE [mentalistId |-> mentalistId, experienceWindow |-> experienceWindow,
              heading |-> "## LEARNED FROM",
              performances |-> Len(recentExperiences),
              successfulTricks |-> analyzeSuccessfulTricks(recentExperiences),
              contextualLearnings |-> extractContextualInsights(recentExperiences)]

InitMemory ==
    /\ now \in {SecondsPerDay, 2 * SecondsPerDay - 1, 2 * SecondsPerDay}
    /\ tieOrder \in {"rowid_asc", "rowid_desc"}
    /\ mentalists = [m \in MemoryPersonas |-> NewMentalist]
    /\ chat_sessions = <<>>
    /\ session_messages = <<>>
    /\ experiences \in OutcomeTables
    /\ performance_metrics = {}
    /\ call = [c \in Callers |-> IdleCall]
    /\ lastOp = NoOp
    /\ req = [e \in Clients |-> IdleReq]
    /\ succeeded = {}
    /\ requests = 0
    /\ ratingSum = 0
    /\ NoFunctionCall

\* const summary = await generateMemorySummary(userId, mentalistId)
GenerateMemorySummary(userId, mentalistId, millis) ==
    /\ NoMemoryCall
    /\ summary' = generateMemorySummary(userId, mentalistId, now * 1000 + millis)
    /\ UNCHANGED <<ratingSum, argVars, streamVars, briefing, now, tieOrder, mentalists,
                   chat_sessions, session_messages, experiences,
                   performance_metrics, chatVars, endVars>>

\* const learnedKnowledge = await synthesizeLearnings(mentalistId, window)
SynthesizeLearnings(mentalistId, experienceWindow) ==
    /\ NoMemoryCall
    /\ briefing' = synthesizeLearnings(mentalistId, experienceWindow)
    /\ UNCHANGED <<ratingSum, argVars, streamVars, summary, now, tieOrder, mentalists,
                   chat_sessions, session_messages, experiences,
                   performance_metrics, chatVars, endVars>>

NextMemory ==
    \* Date.now() within the second now: millis.
    \/ \E u \in Users, m \in MemoryPersonas, millis \in {0, 999} :
          GenerateMemorySummary(u, m, millis)
    \/ \E m \in MemoryPersonas, window \in {1, 2} : SynthesizeLearnings(m, window)

SpecMemory == InitMemory /\ [][NextMemory]_vars

\* C28: synthesizeLearnings returns its fixed "no experiences yet" text for a
\* persona without experiences; for a persona with experiences its briefing
\* is drawn from min(window, number of the persona's experiences) of them,
\* none of which is older than an experience left out: the count it
\* reports and the uses it reports for each trick are those of these rows.
C28_BriefingFromRecentWindow ==
    briefing # NoBriefing =>
        LET own == {i \in DOMAIN experiences :
                      experiences[i].mentalist_id = briefing.mentalistId}
        IN  IF own = {}
            THEN briefing.heading =
                    "## No learning experiences yet. This is your first performance!"
            ELSE /\ briefing.heading = "## LEARNED FROM"
                 /\ briefing.performances <= briefing.experienceWindow
                 /\ \E used \in SUBSET own :
                       /\ Cardinality(used) =
                             Min({briefing.experienceWindow, Cardinality(own)})
                       /\ \A i \in used, j \in own \ used :
                             experiences[i].timestamp >= experiences[j].timestamp
                       /\ briefing.performances = Cardinality(used)
                       /\ {pattern.name : pattern \in Range(briefing.successfulTricks)}
                             = {experiences[i].trick_performed : i \in used}
                       /\ \A pattern \in Range(briefing.successfulTricks) :
                             pattern.timesPerformed =
                                Cardinality({i \in used :
                                   experiences[i].trick_performed = pattern.name})

\* A briefing with a window of one for a persona with two experiences of
\* different days: it is drawn from the later one alone.
C28_Witness ==
    /\ briefing # NoBriefing
    /\ briefing.mentalistId = "oz"
    /\ briefing.experienceWindow = 1
    /\ Len(experiences) = 2
    /\ \A i \in DOMAIN experiences : experiences[i].mentalist_id = "oz"
    /\ experiences[1].timestamp < experiences[2].timestamp
    /\ experiences[1].trick_performed = "card_force"
    /\ experiences[2].trick_performed = "general_interaction"
    /\ briefing.performances = 1
    /\ briefing.successfulTricks[1].name = "general_interaction"

\* C29: generateMemorySummary returns its "new user" text for a pair of user
\* and persona without experiences; for a pair whose one experience was
\* stored on the day of the call it reports 0 days ("Today"); and what it
\* returns is made of the pair's own rows alone: their number, their
\* tricks, their sentiments, the days since the latest of them.
C29_SummaryOfOwnOutcomes ==
    summary # NoSummary =>
        LET own == {i \in DOMAIN experiences :
                      /\ experiences[i].user_id = summary.userId
                      /\ experiences[i].mentalist_id = summary.mentalistId}
            amazed == {i \in own : experiences[i].user_sentiment = 8}
            latest == Max({experiences[i].timestamp : i \in own})
        IN  IF own = {}
            THEN summary.heading = "## NEW USER"
            ELSE /\ summary.heading = "## REMEMBER THIS USER"
                 /\ summary.totalConversations = Cardinality(own)
                 /\ Range(summary.favoriteTopics)
                       = {experiences[i].trick_performed : i \in own}
                 /\ summary.overallSentiment =
                       sentimentToText(<<8 * Cardinality(amazed)
                                           - 5 * Cardinality(own \ amazed),
                                         Cardinality(own)>>)
                 /\ summary.daysSinceLastInteraction =
                       (now - latest) \div SecondsPerDay
                 /\ Len(summary.moments) = Cardinality(amazed)
                 /\ (/\ Cardinality(own) = 1
                     /\ latest \div SecondsPerDay = now \div SecondsPerDay)
                       => /\ summary.daysSinceLastInteraction = 0
                          /\ summary.lastInteraction = "Today"

\* The summary for a pair whose one experience was stored in the first
\* second of the day of the call, made in that day's last second, next to
\* an experience of the same user with another persona stored the day
\* before.
C29_Witness ==
    /\ summary # NoSummary
    /\ summary.userId = "u1" /\ summary.mentalistId = "oz"
    /\ now = 2 * SecondsPerDay - 1
    /\ Len(experiences) = 2
    /\ experiences[1].user_id = "u1" /\ experiences[1].mentalist_id = "maya"
    /\ experiences[1].timestamp = SecondsPerDay - 1
    /\ experiences[2].user_id = "u1" /\ experiences[2].mentalist_id = "oz"
    /\ experiences[2].timestamp = SecondsPerDay
    /\ summary.totalConversations = 1
    /\ summary.lastInteraction = "Today"

(***************************************************************************)
(* Whether a session gets ended, checked under SpecLive.                   *)
(*                                                                         *)
(* A visitor's turns and session ends as under SpecTurn, at one time of    *)
(* the clock.  A handler that has been entered runs on: the steps of POST  *)
(* /api/chat/enhanced and of POST /api/session/end are taken whenever they *)
(* stay possible.  Whether and when a request is sent is the visitor's     *)
(* choice: nothing obliges the browser to send one.                        *)
(***************************************************************************)
TurnRequested ==
    ChatRequest("c1")

TurnHandled ==
    \/ ChatInsertSession("c1")
    \/ \E content \in {"wow", "hello"} : ChatSaveUser("c1", content)
    \/ ChatCountUser("c1")
    \/ \E fullResponse \in Replies : StreamDone("c1", fullResponse)
    \/ ChatSaveAssistant("c1", "hello")
    \/ ChatCountAssistant("c1")

\* One session end is captured in a run.
EndRequested ==
    \E sid \in DOMAIN chat_sessions :
        /\ NoRequestInFlight
        /\ experiences = <<>>
        /\ EndRequest("e1", sid, "oz", "u1")

EndHandled ==
    \/ \E e \in Clients : SelectStartTime(e)
    \/ \E e \in Clients, answer \in AIAnalyses : AnalyzeConversation(e, TRUE, answer)
    \/ \E e \in Clients :
          AnalyzeConversation(e, FALSE, simpleAnalysis(req[e].messages))
    \/ \E e \in Clients : InsertExperience(e)
    \/ \E e \in Clients : UpdateStats(e)
    \/ \E e \in Clients : SelectTricks(e)
    \/ \E e \in Clients : UpdateTricks(e)
    \/ \E e \in Clients : SelectMetric(e)
    \/ \E e \in Clients : WriteMetric(e)
    \/ \E e \in Clients : EndSessionRow(e)

NextLive == TurnRequested \/ TurnHandled \/ EndRequested \/ EndHandled

SpecLive ==
    /\ Init
    /\ [][NextLive]_vars
    /\ WF_vars(TurnHandled)
    /\ WF_vars(EndHandled)

SessionActive(sid) ==
    sid \in DOMAIN chat_sessions /\ chat_sessions[sid].is_active = 1

SessionEnded(sid) ==
    sid \in DOMAIN chat_sessions /\ chat_sessions[sid].is_active = 0

MaxLearned == 4

InitLearning ==
    LET kinds ==
            {[trick |-> "card_force", reaction |-> "amazed", sentiment |-> 8,
              lesson |-> lesson] : lesson \in {"", "smile more", "pause longer"}}
            \cup
            {[trick |-> "card_force", reaction |-> "skeptical", sentiment |-> -5,
              lesson |-> ""],
             [trick |-> "general_interaction", reaction |-> "amazed",
              sentiment |-> 8, lesson |-> ""],
             [trick |-> "general_interaction", reaction |-> "engaged",
              sentiment |-> 5, lesson |-> ""],
             [trick |-> "general_interaction", reaction |-> "skeptical",
              sentiment |-> -5, lesson |-> ""]}
        Stored(kind, hour, i) ==
            [mentalist_id |-> "oz", user_id |-> "u1", session_id |-> i,
             timestamp |-> hour * 3600 + i,
             trick_performed |-> kind.trick, user_reaction |-> kind.reaction,
             user_sentiment |-> kind.sentiment, lesson_learned |-> kind.lesson,
             message_count |-> 2, duration_seconds |-> 0]
    IN  /\ now = 11 * 3600
        /\ tieOrder = "rowid_asc"
        /\ mentalists = [m \in MemoryPersonas |-> NewMentalist]
        /\ chat_sessions = <<>>
        /\ session_messages = <<>>
        /\ \E n \in 0..MaxLearned :
             \E ks \in [1..n -> kinds], hs \in [1..n -> {9, 10}] :
                /\ \A i, j \in 1..n : i < j => hs[i] <= hs[j]
                /\ experiences = [i \in 1..n |-> Stored(ks[i], hs[i], i)]
        /\ performance_metrics = {}
        /\ call = [c \in Callers |-> IdleCall]
        /\ lastOp = NoOp
        /\ req = [e \in Clients |-> IdleReq]
        /\ succeeded = {}
        /\ requests = 0
        /\ ratingSum = 0
        /\ NoFunctionCall

NextLearning == \E window \in {1, 2, 100} : SynthesizeLearnings("oz", window)

SpecLearning == InitLearning /\ [][NextLearning]_vars

\* C31: the top-techniques list of a briefing holds at most 5 techniques in
\* descending order of successRate, two techniques of equal successRate in
\* descending order of their attempts; the successRate of a technique is
\* the share of its outcomes within the window whose reaction is amazed or
\* engaged (as a percentage, to the nearest tenth).
C31_TopTechniquesRanked ==
    (briefing # NoBriefing /\ briefing.heading = "## LEARNED FROM") =>
        LET top == briefing.successfulTricks
            used == {i \in DOMAIN experiences :
                       i > Len(experiences) - briefing.performances}
            Of(name) == {i \in used : experiences[i].trick_performed = name}
            Successes(name) ==
                {i \in Of(name) :
                   experiences[i].user_reaction \in {"amazed", "engaged"}}
            Gap(k) == 2 * Cardinality(Of(top[k].name)) * top[k].successRate
                         - 2000 * Cardinality(Successes(top[k].name))
        IN  /\ Len(top) <= 5
            /\ \A k \in DOMAIN top :
                  /\ top[k].timesPerformed = Cardinality(Of(top[k].name))
                  /\ Gap(k) <= Cardinality(Of(top[k].name))
                  /\ -Gap(k) <= Cardinality(Of(top[k].name))
            /\ \A j, k \in DOMAIN top :
                  j < k =>
                     \/ top[j].successRate > top[k].successRate
                     \/ /\ top[j].successRate = top[k].successRate
                        /\ top[j].timesPerformed >= top[k].timesPerformed

\* C32: the key insight a briefing reports for a technique is the lesson of
\* the most recent outcome of the technique within the window that has a
\* lesson.
C32_KeyInsightIsMostRecentLesson ==
    (briefing # NoBriefing /\ briefing.heading = "## LEARNED FROM") =>
        LET used == {i \in DOMAIN experiences :
                       i > Len(experiences) - briefing.performances}
            WithLesson(name) ==
                {i \in used : /\ experiences[i].trick_performed = name
                              /\ experiences[i].lesson_learned # ""}
            Latest(name) ==
                CHOOSE i \in WithLesson(name) :
                   \A j \in WithLesson(name) :
                      experiences[j].timestamp <= experiences[i].timestamp
        IN  \A k \in DOMAIN briefing.successfulTricks :
               LET pattern == briefing.successfulTricks[k]
               IN  WithLesson(pattern.name) # {} =>
                      pattern.keyInsight =
                         experiences[Latest(pattern.name)].lesson_learned

\* C33: the contextual insights of a briefing are computed over the three
\* times of day morning (hour < 12), afternoon (12 <= hour < 18) and
\* evening: a time of day is named exactly when the outcomes of the window
\* at that time of day are more than 3 and their mean sentiment is above
\* 0.6; it is named at most once; at most 3 insights are reported; and when
\* no time of day qualifies the one insight reported is the baseline.
C33_InsightsPerTimeOfDay ==
    (briefing # NoBriefing /\ briefing.heading = "## LEARNED FROM") =>
        LET insights == briefing.contextualLearnings
            used == {i \in DOMAIN experiences :
                       i > Len(experiences) - briefing.performances}
            Hour(i) == (experiences[i].timestamp \div 3600) % 24
            Bucket(name) ==
                {i \in used :
                   CASE name = "morning" -> Hour(i) < 12
                     [] name = "afternoon" -> Hour(i) >= 12 /\ Hour(i) < 18
                     [] OTHER -> Hour(i) >= 18}
            RECURSIVE Total(_)
            Total(ids) ==
                IF ids = {} THEN 0
                ELSE LET i == CHOOSE i \in ids : TRUE
                     IN  experiences[i].user_sentiment + Total(ids \ {i})
            Qualifies(name) ==
                /\ Cardinality(Bucket(name)) > 3
                /\ Total(Bucket(name)) > 6 * Cardinality(Bucket(name))
            Names(name) ==
                {k \in DOMAIN insights :
                   insights[k].context = "Performances in the " \o name}
            timesOfDay == {"morning", "afternoon", "evening"}
        IN  /\ \A name \in timesOfDay :
                  /\ Names(name) # {} <=> Qualifies(name)
                  /\ Cardinality(Names(name)) <= 1
            /\ Len(insights) <= 3
            /\ (\A name \in timesOfDay : ~Qualifies(name)) =>
                  insights = <<[context |-> "All time periods",
                                insight |-> "Show consistent performance"]>>

\* C34: a session-end request for a session without stored messages is
\* rejected and changes nothing: the session stays active, no experience is
\* stored for it and the request goes no further; while no session holds a
\* message, no persona and no metric has been touched.
C34_EmptySessionEndRejected ==
    /\ \A sid \in DOMAIN chat_sessions :
          getSessionMessages(sid) = <<>> =>
             /\ chat_sessions[sid].is_active = 1
             /\ \A i \in DOMAIN experiences : experiences[i].session_id # sid
             /\ \A e \in Clients : req[e].pc # "idle" => req[e].sessionId # sid
    /\ session_messages = <<>> =>
          /\ experiences = <<>>
          /\ performance_metrics = {}
          /\ mentalists = [m \in Personas |-> NewMentalist]

\* A session-end request has been answered for a session that exists and
\* holds no message.
C34_Witness ==
    /\ requests = 1
    /\ Len(chat_sessions) = 1
    /\ session_messages = <<>>
    /\ \A e \in Clients : req[e].pc = "idle"

\* C35: in every reachable state a session marked inactive has an experience
\* whose capture has completed (the persona's counter and the metric of its
\* trick are written); and a session-end request that fails, at whatever
\* statement, leaves every session as it was.
C35_EndedSessionHasOutcome ==
    /\ [](\A sid \in DOMAIN chat_sessions :
            chat_sessions[sid].is_active = 0 =>
               \E i \in DOMAIN experiences :
                  /\ experiences[i].session_id = sid
                  /\ mentalists[experiences[i].mentalist_id].total_performances >= 1
                  /\ MetricRows(experiences[i].mentalist_id,
                                experiences[i].trick_performed) # {})
    /\ [][\A e \in Clients :
             (req[e].pc \notin {"idle", "endSession"} /\ req'[e].pc = "idle")
                => chat_sessions' = chat_sessions]_vars

\* The second visitor's session has been ended by a request of this run,
\* and a request for the third visitor's session has failed after its
\* experience was stored: that session is still active.
C35_Witness ==
    /\ NoRequestInFlight
    /\ chat_sessions[2].is_active = 0
    /\ chat_sessions[3].is_active = 1
    /\ \E i \in DOMAIN experiences : experiences[i].session_id = 3

\* C36: in the enhanced chat turn no end-of-stream marker is written to the
\* client before the reply collected from the stream is stored as the
\* assistant's message of the session.
C36_ReplyStoredBeforeMarker ==
    (/\ consumer = "enhanced"
     /\ collected # ""
     /\ \E k \in DOMAIN frames : Trim(frames[k]) = "data: [DONE]")
        => \E i \in DOMAIN session_messages :
              /\ session_messages[i].session_id = 1
              /\ session_messages[i].role = "assistant"

\* C37: a call of streamChat has ended exactly when it has called one of
\* onDone and onError; it calls one of them at most once, and it calls
\* nothing after it: every onChunk comes before.
C37_OneTerminalCallback ==
    consumer = "client" =>
        LET terminal == {k \in DOMAIN callbacks :
                           callbacks[k] \in {"onDone", "onError"}}
        IN  /\ Cardinality(terminal) <= 1
            /\ \A k \in terminal : k = Len(callbacks)
            /\ outcome # "reading" <=> terminal # {}

\* The browser has called onChunk for a delta and onDone at the first
\* end-of-stream marker, and returned with bytes of the response unread.
C37_Witness ==
    /\ consumer = "client"
    /\ callbacks = <<"onChunk", "onDone">>
    /\ outcome = "done"
    /\ upstream # ""

\* C38: the success_count of a (persona, trick) pair is the number of the
\* pair's counted experiences whose reaction is amazed or engaged, which
\* are those of sentiment 0.3 or more, whatever mentalist_success their
\* analyses held.
C38_SuccessCountFollowsReaction ==
    \A m \in Personas, trick \in Tricks :
        LET counted == ExperiencesOf(m, trick) \cap Captured
            won == {i \in counted :
                      experiences[i].user_reaction \in {"amazed", "engaged"}}
        IN  /\ \A i \in counted : i \in won <=> experiences[i].user_sentiment >= 3
            /\ counted # {} =>
                  \A r \in MetricRows(m, trick) :
                     /\ r.total_attempts = Cardinality(counted)
                     /\ r.success_count = Cardinality(won)

\* Two session ends have been answered: the fallback analysis of a
\* transcript without positive words (mentalistSuccess false, sentiment
\* 0.5, engaged) is counted a success, the provider's analysis of sentiment
\* 0.2 (neutral) is not.
C38_Witness ==
    /\ NoRequestInFlight
    /\ Len(experiences) = 2
    /\ succeeded = {1, 2}
    /\ experiences[1].lesson_learned = "Standard interaction"
    /\ experiences[1].user_reaction = "engaged"
    /\ experiences[2].trick_performed = "card_force"
    /\ experiences[2].user_sentiment = 2
    /\ \E r \in MetricRows("oz", "general_interaction") :
          r.total_attempts = 1 /\ r.success_count = 1
    /\ \E r \in MetricRows("oz", "card_force") :
          r.total_attempts = 1 /\ r.success_count = 0

====
